---- MODULE Spec2Model ----
(***************************************************************************)
(* Model of the WebGPU uniform layout engine and of the storage buffer     *)
(* manager of react-shader.                                                *)
(*                                                                         *)
(*   src/src/hooks/useWebGPU.ts  the hook whose uniform buffer also holds  *)
(*                               vec4 arrays (with synthesized _count      *)
(*                               fields)                                   *)
(*   src/unnamed/part_006        the hook whose arrays live in growable    *)
(*                               storage buffers                           *)
(*                                                                         *)
(* Byte offsets, sizes and float indices are the integers of the source.   *)
(* A JavaScript value is a tagged record; a Record<string, value> is the   *)
(* sequence of its entries in insertion order (Object.entries order).      *)
(***************************************************************************)
EXTENDS Integers, Sequences, FiniteSets, TLC

\* ------------------------------------------------------------------------
\* Bounds of the model
\* ------------------------------------------------------------------------

\* largest number of entries of a custom uniform map
MaxCustom == 2

\* longest vec4 array supplied as a uniform
MaxArrayLen == 3

\* number of names of NamePool a custom uniform map may use
NumNames == 4

\* ------------------------------------------------------------------------
\* JavaScript values
\* ------------------------------------------------------------------------

Num(x) == [t |-> "number", n |-> x, e |-> <<>>]

Arr(s) == [t |-> "array", n |-> 0, e |-> s]

Undefined == [t |-> "undefined", n |-> 0, e |-> <<>>]

\* value[i] of JavaScript (0-based); undefined outside the array
At(value, i) ==
  IF value.t = "array" /\ i >= 0 /\ i < Len(value.e) THEN value.e[i + 1] ELSE Undefined

\* value.length of an array
Length(value) == Len(value.e)

\* the numeric tuple [x1, ..., xk]
Vec(s) == Arr([i \in 1..Len(s) |-> Num(s[i])])

\* obj[name] on a map kept as the sequence of its entries
Lookup(map, name) ==
  IF \E i \in 1..Len(map) : map[i].name = name
  THEN map[CHOOSE i \in 1..Len(map) : map[i].name = name].value
  ELSE Undefined

\* obj[name] = value: an existing key keeps its position, a new key is appended
Put(map, name, value) ==
  IF \E i \in 1..Len(map) : map[i].name = name
  THEN [map EXCEPT ![CHOOSE i \in 1..Len(map) : map[i].name = name].value = value]
  ELSE Append(map, [name |-> name, value |-> value])

\* Math.ceil(x / d) for x >= 0, d > 0
Ceil(x, d) == (x + d - 1) \div d

\* ------------------------------------------------------------------------
\* Type inference (useWebGPU.ts)
\* ------------------------------------------------------------------------

isVec2(value) == value.t = "array" /\ Length(value) = 2 /\ At(value, 0).t = "number"

isVec3(value) == value.t = "array" /\ Length(value) = 3 /\ At(value, 0).t = "number"

isVec4(value) == value.t = "array" /\ Length(value) = 4 /\ At(value, 0).t = "number"

\* isVec4Array without the test of the length of the first element
isVec4ArrayAnyTuple(value) ==
  value.t = "array" /\ Length(value) > 0 /\ At(value, 0).t = "array"

isVec4Array(value) ==
  value.t = "array" /\ Length(value) > 0 /\ At(value, 0).t = "array" /\ Length(At(value, 0)) = 4

\* the InferredType of a value; baseType "throw" stands for the thrown Error
inferWgslType(value) ==
  IF value.t = "number" THEN
    [wgslType |-> "f32", baseType |-> "f32", isArray |-> FALSE, arrayLength |-> 0]
  ELSE IF isVec4Array(value) THEN
    [wgslType |-> "array<vec4f, " \o ToString(Length(value)) \o ">", baseType |-> "vec4f",
     isArray |-> TRUE, arrayLength |-> Length(value)]
  ELSE IF isVec4(value) THEN
    [wgslType |-> "vec4f", baseType |-> "vec4f", isArray |-> FALSE, arrayLength |-> 0]
  ELSE IF isVec3(value) THEN
    [wgslType |-> "vec3f", baseType |-> "vec3f", isArray |-> FALSE, arrayLength |-> 0]
  ELSE IF isVec2(value) THEN
    [wgslType |-> "vec2f", baseType |-> "vec2f", isArray |-> FALSE, arrayLength |-> 0]
  ELSE
    [wgslType |-> "throw", baseType |-> "throw", isArray |-> FALSE, arrayLength |-> 0]

getTypeAlignment(type) ==
  CASE type = "f32" -> 4
    [] type = "vec2f" -> 8
    [] type = "vec3f" -> 16
    [] type = "vec4f" -> 16

getTypeSize(type) ==
  CASE type = "f32" -> 4
    [] type = "vec2f" -> 8
    [] type = "vec3f" -> 12
    [] type = "vec4f" -> 16

UNIFORM_ARRAY_STRIDE == 16

\* the default uniforms with the vectors before the scalars
DEFAULT_UNIFORMS_VECTORS_FIRST ==
  << [name |-> "iResolution", baseType |-> "vec2f"],
     [name |-> "iMouse", baseType |-> "vec2f"],
     [name |-> "iMouseNormalized", baseType |-> "vec2f"],
     [name |-> "iTime", baseType |-> "f32"],
     [name |-> "iMouseLeftDown", baseType |-> "f32"] >>

\* the default uniforms, in the order they are added
DEFAULT_UNIFORMS ==
  << [name |-> "iTime", baseType |-> "f32"],
     [name |-> "iMouseLeftDown", baseType |-> "f32"],
     [name |-> "iResolution", baseType |-> "vec2f"],
     [name |-> "iMouse", baseType |-> "vec2f"],
     [name |-> "iMouseNormalized", baseType |-> "vec2f"] >>

\* ------------------------------------------------------------------------
\* Layout planner (useWebGPU.ts, calculateUniformLayout)
\* ------------------------------------------------------------------------

\* addField without the rounding of the offset to the alignment
addFieldUnaligned(acc, name, baseType) ==
  LET size == getTypeSize(baseType)
  IN [fields |-> Append(acc.fields,
                   [name |-> name, type |-> baseType, offset |-> acc.offset, size |-> size,
                    isArray |-> FALSE, arrayLength |-> 0, elementStride |-> 0]),
      offset |-> acc.offset + size]

\* addField advancing the offset by one float whatever the size of the type
addFieldOneFloat(acc, name, baseType) ==
  LET alignment == getTypeAlignment(baseType)
      size == getTypeSize(baseType)
      offset == Ceil(acc.offset, alignment) * alignment
  IN [fields |-> Append(acc.fields,
                   [name |-> name, type |-> baseType, offset |-> offset, size |-> size,
                    isArray |-> FALSE, arrayLength |-> 0, elementStride |-> 0]),
      offset |-> offset + 4]

\* The closure addField: acc is the pair (fields, offset) it updates
addField(acc, name, baseType) ==
  LET alignment == getTypeAlignment(baseType)
      size == getTypeSize(baseType)
      offset == Ceil(acc.offset, alignment) * alignment
  IN [fields |-> Append(acc.fields,
                   [name |-> name, type |-> baseType, offset |-> offset, size |-> size,
                    isArray |-> FALSE, arrayLength |-> 0, elementStride |-> 0]),
      offset |-> offset + size]

\* addArrayField sizing an array by 4 bytes per element instead of the stride
addArrayFieldPacked(acc, name, baseType, arrayLength) ==
  LET offset == Ceil(acc.offset, 16) * 16
      totalSize == arrayLength * 4
  IN [fields |-> Append(acc.fields,
                   [name |-> name,
                    type |-> "array<" \o baseType \o ", " \o ToString(arrayLength) \o ">",
                    offset |-> offset, size |-> totalSize,
                    isArray |-> TRUE, arrayLength |-> arrayLength,
                    elementStride |-> UNIFORM_ARRAY_STRIDE]),
      offset |-> offset + totalSize]

\* The closure addArrayField
addArrayField(acc, name, baseType, arrayLength) ==
  LET offset == Ceil(acc.offset, 16) * 16
      totalSize == arrayLength * UNIFORM_ARRAY_STRIDE
  IN [fields |-> Append(acc.fields,
                   [name |-> name,
                    type |-> "array<" \o baseType \o ", " \o ToString(arrayLength) \o ">",
                    offset |-> offset, size |-> totalSize,
                    isArray |-> TRUE, arrayLength |-> arrayLength,
                    elementStride |-> UNIFORM_ARRAY_STRIDE]),
      offset |-> offset + totalSize]

\* for (const u of entries) addField(u.name, u.baseType)
RECURSIVE addFields(_, _)
addFields(acc, entries) ==
  IF entries = <<>> THEN acc
  ELSE addFields(addField(acc, Head(entries).name, Head(entries).baseType), Tail(entries))

\* for (const { name, inferred } of arrayEntries) addArrayField(...)
RECURSIVE addArrayFields(_, _)
addArrayFields(acc, entries) ==
  IF entries = <<>> THEN acc
  ELSE addArrayFields(
         addArrayField(acc, Head(entries).name, Head(entries).baseType, Head(entries).arrayLength),
         Tail(entries))

\* The entries of the custom uniforms with their inferred types, in map order
inferredEntries(customUniforms) ==
  [i \in 1..Len(customUniforms) |->
     LET inferred == inferWgslType(customUniforms[i].value)
     IN [name |-> customUniforms[i].name, baseType |-> inferred.baseType,
         isArray |-> inferred.isArray, arrayLength |-> inferred.arrayLength]]

\* the subsequence of the entries that satisfy keepArray = isArray
RECURSIVE partitionEntries(_, _)
partitionEntries(entries, keepArray) ==
  IF entries = <<>> THEN <<>>
  ELSE IF Head(entries).isArray = keepArray
       THEN <<Head(entries)>> \o partitionEntries(Tail(entries), keepArray)
       ELSE partitionEntries(Tail(entries), keepArray)

\* countEntries with another suffix
countEntriesLength(arrayEntries) ==
  [i \in 1..Len(arrayEntries) |->
     [name |-> arrayEntries[i].name \o "_length", baseType |-> "f32",
      isArray |-> FALSE, arrayLength |-> 0]]

\* the synthesized <name>_count scalars, one per array entry
countEntries(arrayEntries) ==
  [i \in 1..Len(arrayEntries) |->
     [name |-> arrayEntries[i].name \o "_count", baseType |-> "f32",
      isArray |-> FALSE, arrayLength |-> 0]]

\* the comparator with its operands exchanged
compareAlignmentAscending(a, b) ==
  getTypeAlignment(a.baseType) - getTypeAlignment(b.baseType)

\* the comparator of scalarEntries.sort
compareAlignment(a, b) == getTypeAlignment(b.baseType) - getTypeAlignment(a.baseType)

\* insertSorted putting x before the elements that compare equal to it
RECURSIVE insertSortedUnstable(_, _)
insertSortedUnstable(sorted, x) ==
  IF sorted = <<>> THEN <<x>>
  ELSE IF compareAlignment(Head(sorted), x) >= 0 THEN <<x>> \o sorted
       ELSE <<Head(sorted)>> \o insertSortedUnstable(Tail(sorted), x)

\* x put before the first element that must follow it
RECURSIVE insertSorted(_, _)
insertSorted(sorted, x) ==
  IF sorted = <<>> THEN <<x>>
  ELSE IF compareAlignment(Head(sorted), x) > 0 THEN <<x>> \o sorted
       ELSE <<Head(sorted)>> \o insertSorted(Tail(sorted), x)

\* Array.prototype.sort with compareAlignment: a stable sort
RECURSIVE sortEntries(_, _)
sortEntries(sorted, entries) ==
  IF entries = <<>> THEN sorted
  ELSE sortEntries(insertSorted(sorted, Head(entries)), Tail(entries))

\* typeof value
typeof(value) == IF value.t = "number" THEN "number" ELSE "object"

\* the message of the Error inferWgslType throws, as the literal part and the
\* interpolated part of `Unsupported uniform value type: ${typeof value}`
unsupportedError(value) == <<"Unsupported uniform value type: ", typeof(value)>>

\* the message calculateUniformLayout fails with: that of the first entry,
\* in the order of Object.entries, for which inferWgslType throws
thrownMessage(customUniforms) ==
  LET i == CHOOSE k \in 1..Len(customUniforms) :
             /\ inferWgslType(customUniforms[k].value).baseType = "throw"
             /\ \A j \in 1..(k - 1) :
                  inferWgslType(customUniforms[j].value).baseType # "throw"
  IN unsupportedError(customUniforms[i].value)

\* calculateUniformLayout throws when inferWgslType throws for some entry
calculateUniformLayoutThrows(customUniforms) ==
  \E i \in 1..Len(customUniforms) : inferWgslType(customUniforms[i].value).baseType = "throw"

\* calculateUniformLayout without the rounding of the buffer size
calculateUniformLayoutUnrounded(customUniforms) ==
  LET defaults == addFields([fields |-> <<>>, offset |-> 0], DEFAULT_UNIFORMS)
      entries == inferredEntries(customUniforms)
      arrayEntries == partitionEntries(entries, TRUE)
      scalarEntries == partitionEntries(entries, FALSE) \o countEntries(arrayEntries)
      scalars == addFields(defaults, sortEntries(<<>>, scalarEntries))
      all == addArrayFields(scalars, arrayEntries)
  IN [fields |-> all.fields, bufferSize |-> all.offset]

calculateUniformLayout(customUniforms) ==
  LET defaults == addFields([fields |-> <<>>, offset |-> 0], DEFAULT_UNIFORMS)
      entries == inferredEntries(customUniforms)
      arrayEntries == partitionEntries(entries, TRUE)
      scalarEntries == partitionEntries(entries, FALSE) \o countEntries(arrayEntries)
      scalars == addFields(defaults, sortEntries(<<>>, scalarEntries))
      all == addArrayFields(scalars, arrayEntries)
  IN [fields |-> all.fields, bufferSize |-> Ceil(all.offset, 16) * 16]

\* ------------------------------------------------------------------------
\* Value packer (useWebGPU.ts, packUniformValue)
\* ------------------------------------------------------------------------

\* new Float32Array(n)
Float32Array(n) == [i \in 0..(n - 1) |-> 0]

\* floatData[i] = x: a typed array ignores a store outside its bounds
Store(floatData, i, x) ==
  IF i \in DOMAIN floatData THEN [floatData EXCEPT ![i] = x] ELSE floatData

\* the float a JavaScript value becomes when stored (undefined becomes NaN)
NaN == -1

ToFloat(value) == IF value.t = "number" THEN value.n ELSE NaN

\* floatData[base + k] = value[k] for k = from .. upTo - 1
storeComponents(floatData, base, value, from, upTo) ==
  [i \in DOMAIN floatData |->
     IF i - base >= from /\ i - base < upTo THEN ToFloat(At(value, i - base))
     ELSE floatData[i]]

\* the loop over the elements without the bound of the array length
RECURSIVE storeElementsUnclamped(_, _, _, _, _, _)
storeElementsUnclamped(floatData, floatOffset, stride, value, i, maxLen) ==
  IF ~(i < Length(value)) THEN floatData
  ELSE storeElementsUnclamped(
         storeComponents(floatData, floatOffset + i * stride, At(value, i), 0, 4),
         floatOffset, stride, value, i + 1, maxLen)

\* the loop over the elements of a vec4 array, from element i on
RECURSIVE storeElements(_, _, _, _, _, _)
storeElements(floatData, floatOffset, stride, value, i, maxLen) ==
  IF ~(i < Length(value) /\ i < maxLen) THEN floatData
  ELSE storeElements(
         storeComponents(floatData, floatOffset + i * stride, At(value, i), 0, 4),
         floatOffset, stride, value, i + 1, maxLen)

packUniformValue(field, value, floatData) ==
  LET floatOffset == field.offset \div 4
  IN IF field.isArray /\ field.elementStride # 0 /\ field.arrayLength # 0 THEN
       IF isVec4Array(value)
       THEN storeElements(floatData, floatOffset, field.elementStride \div 4, value, 0,
                          field.arrayLength)
       ELSE floatData
     ELSE IF value.t = "number" THEN Store(floatData, floatOffset, value.n)
     ELSE IF value.t = "array" /\ At(value, 0).t = "number"
          THEN storeComponents(floatData, floatOffset, value, 0, Length(value))
     ELSE floatData

\* ------------------------------------------------------------------------
\* Inputs: the custom uniform maps a caller may supply
\* ------------------------------------------------------------------------

NamePool == <<"scale", "ripples", "ripples_count", "iTime", "color">>

Names == {NamePool[i] : i \in 1..NumNames}

\* a vec4 array of n elements, element k being [4k+1, 4k+2, 4k+3, 4k+4]
RECURSIVE SampleElements(_)
SampleElements(n) ==
  IF n = 0 THEN <<>>
  ELSE Append(SampleElements(n - 1), Vec(<<4 * n - 3, 4 * n - 2, 4 * n - 1, 4 * n>>))

SampleArray(n) == Arr(SampleElements(n))

\* the shapes inferWgslType accepts
SupportedValues ==
  {Num(2), Vec(<<5, 6>>), Vec(<<5, 6, 7>>), Vec(<<5, 6, 7, 8>>)}
    \cup {SampleArray(n) : n \in 1..MaxArrayLen}

\* shapes it rejects: the empty array and a numeric array of length 1
UnsupportedValues == {Arr(<<>>), Vec(<<9>>)}

UniformValues == SupportedValues \cup UnsupportedValues

HasDistinctNames(m) == \A i, j \in 1..Len(m) : i # j => m[i].name # m[j].name

\* the map whose i-th entry, in insertion order, is names[i]: values[i]
MapOf(names, values) ==
  [i \in 1..Len(names) |-> [name |-> names[i], value |-> values[i]]]

\* keys of an object are pairwise distinct
AreDistinct(names) == \A i, j \in 1..Len(names) : i # j => names[i] # names[j]

\* the maps the props change to while a session runs
SessionMaps ==
  {<<>>} \cup {<<[name |-> nm, value |-> v]>> : nm \in Names, v \in UniformValues}

\* ------------------------------------------------------------------------
\* The render session of useWebGPU.ts
\* ------------------------------------------------------------------------

VARIABLES
  uniformsRef,   \* uniformsRef.current: the custom uniforms of the latest props
  \* useWebGPU.ts
  phase,         \* "initializing", "running", "failed", "unmounted", or "pending":
                 \* unmounted while initializeWebGPU has not settled
  stateRef,      \* stateRef.current: <<>> for null, else <<WebGPUState>>
  layoutFrom,    \* the custom uniforms calculateUniformLayout was last called with
  frameUniforms, \* the custom uniforms the last frame read, <<>> before a frame
  allValues,     \* the value map the last frame packed
  uniformData,   \* the floats the last frame wrote to the uniform buffer
  error,         \* the message handed to onError, as the parts of its template
                 \* literal; <<>> when onError was not called
  device,        \* the GPUDevice of the session: "none" before requestDevice
                 \* resolved, then "live", "destroyed" after device.destroy()
  \* part_006
  sbPhase,           \* "initializing", "running", "failed", "unmounted" or "pending"
  sbStateRef,        \* stateRef.current: <<>> for null, else <<WebGPUState>>
  storageBuffersRef, \* storageBuffersRef.current: the storage data of the latest props
  gpuBuffers,        \* every GPUBuffer created so far; a buffer is named by its index
  allValuesRef,      \* allValuesRef.current: the value map kept across frames
  uniformDataRef,    \* uniformDataRef.current: the float buffer kept across frames
  frameTick,         \* flips at every frame that is rendered
  lastDraw,          \* <<>> before a draw, else the bind group of the last draw
  sbError,           \* the message handed to onError, <<>> when onError was not called
  sbPendingFrames,   \* the frame callbacks requested and neither run nor cancelled:
                     \* current counts the one whose id is animationFrameRef.current,
                     \* stale the others
  sbLastFrame,       \* "none" before render ran, then "drawn" or "skipped" (zero size)
  sbDevice,          \* the GPUDevice of the session: "none", "live" or "destroyed"
  \* the caller
  oscBase,           \* 0, or the n of a caller whose dataset alternates between n and n + 1
  \* part_004 (useWebGL) and the WebGL context of its canvas
  glPhase,           \* "idle" before the effect ran, then "mounted", then "unmounted"
  glStateRef,        \* stateRef.current: <<>> for null, else <<WebGLState>>
  contextLostRef,    \* contextLostRef.current
  animationFrameRef, \* animationFrameRef.current: the id of the last requestAnimationFrame
  elapsedTimeRef,    \* elapsedTimeRef.current
  lastFrameTimeRef,  \* lastFrameTimeRef.current
  glFrameUniforms,   \* <<>> before a draw, else <<the custom uniforms of the last draw>>
  glErrors,          \* the number of calls of onError
  glContext,         \* "ok", or "lost" from webglcontextlost to webglcontextrestored
  glUniforms,        \* the values of the uniforms of the program in use
  glPrograms,        \* the number of programs created so far
  glDraws,           \* the number of gl.drawArrays calls so far
  pendingFrames,     \* the ids of the frame callbacks requested and neither run nor cancelled
  rafCount,          \* the number of requestAnimationFrame calls so far
  clock,             \* the time of the last frame callback
  \* part_005 (useAudio)
  audioStateRef,     \* audioStateRef.current: <<>> for null, else <<the index in starts of
                     \* the start() call that stored its capture>>
  dataArrayRef,      \* dataArrayRef.current: <<>> for null, else <<"Uint8Array">>
  connectionState,   \* state: "disconnected", "connecting", "connected" or "error"
  isRunning,         \* isRunning
  levels,            \* levels: "zero", or "measured" once analyze stored levels
  audioError,        \* error: <<>> for null, else the message
  starts,            \* every start() call that passed its first test: where it is (pc)
                     \* and the AudioContext and the stream it created
  audioFrames,       \* the pending callbacks of requestAnimationFrame(analyze): current
                     \* counts the one whose id is animationFrameRef.current
  lastCall,          \* the last call the caller made: "none", "start" or "stop"
  \* src/utils/textures.ts, with the textures of the WebGL context
  textureManager,    \* the TextureManager: cache (entries in insertion order), nextUnit, maxUnits
  textures,          \* every texture gl.createTexture returned: "live" or "deleted"
  textureUnits,      \* the texture bound to each texture unit, 0 for none
  textureUniforms,   \* the texture uniforms of the latest props: name and source
  textureFrame,      \* <<>> before a frame, else <<the texture uniforms the last frame bound>>
  texturePhase       \* "mounted" or "unmounted"

varsGPU == <<phase, stateRef, layoutFrom, frameUniforms, allValues, uniformData, error, device>>

varsSB == <<sbPhase, sbStateRef, storageBuffersRef, gpuBuffers, allValuesRef, uniformDataRef,
            frameTick, lastDraw, sbError, sbPendingFrames, sbLastFrame, sbDevice>>

varsGL == <<glPhase, glStateRef, contextLostRef, animationFrameRef, elapsedTimeRef,
           lastFrameTimeRef, glFrameUniforms, glErrors, glContext, glUniforms, glPrograms,
           glDraws, pendingFrames, rafCount, clock>>

varsAudio == <<audioStateRef, dataArrayRef, connectionState, isRunning, levels, audioError,
              starts, audioFrames, lastCall>>

varsTextures == <<textureManager, textures, textureUnits, textureUniforms, textureFrame,
                 texturePhase>>

vars == <<uniformsRef, varsGPU, varsSB, oscBase, varsGL, varsAudio, varsTextures>>

\* the default values render builds each frame (a fixed sample of time,
\* pointer and resolution)
defaultValues ==
  << [name |-> "iTime", value |-> Num(3)],
     [name |-> "iMouseLeftDown", value |-> Num(1)],
     [name |-> "iResolution", value |-> Vec(<<8, 6>>)],
     [name |-> "iMouse", value |-> Vec(<<4, 2>>)],
     [name |-> "iMouseNormalized", value |-> Vec(<<1, 1>>)] >>

\* { ...target, ...source }
RECURSIVE spread(_, _)
spread(target, source) ==
  IF source = <<>> THEN target
  ELSE spread(Put(target, Head(source).name, Head(source).value), Tail(source))

\* the loop that adds a <name>_count value for every vec4 array
RECURSIVE addCounts(_, _)
addCounts(values, customs) ==
  IF customs = <<>> THEN values
  ELSE addCounts(
         IF isVec4Array(Head(customs).value)
         THEN Put(values, Head(customs).name \o "_count", Num(Length(Head(customs).value)))
         ELSE values,
         Tail(customs))

\* the value map of a frame
mergeValues(customs) == addCounts(spread(defaultValues, customs), customs)

\* the pack loop of render over layout.fields
RECURSIVE packFields(_, _, _)
packFields(fields, values, floatData) ==
  IF fields = <<>> THEN floatData
  ELSE LET value == Lookup(values, Head(fields).name)
       IN packFields(Tail(fields), values,
                     IF value = Undefined THEN floatData
                     ELSE packUniformValue(Head(fields), value, floatData))

uniformLayout == stateRef[1].uniformLayout

\* initializeWebGPU resolves: the state is published and the loop starts
Initialize ==
  /\ phase = "initializing"
  /\ ~calculateUniformLayoutThrows(uniformsRef)
  /\ stateRef' = << [uniformLayout |-> calculateUniformLayout(uniformsRef)] >>
  /\ layoutFrom' = <<uniformsRef>>
  /\ phase' = "running"
  /\ device' = "live"
  /\ UNCHANGED <<varsGL, oscBase, varsAudio, varsTextures, uniformsRef, frameUniforms, allValues, uniformData, error, varsSB>>

\* the catch of initialize without the call of onError
InitializeSwallows ==
  /\ phase = "initializing"
  /\ calculateUniformLayoutThrows(uniformsRef)
  /\ phase' = "failed"
  /\ device' = "live"
  /\ UNCHANGED <<varsGL, oscBase, varsAudio, varsTextures, uniformsRef, stateRef, layoutFrom, frameUniforms, allValues, uniformData,
                 error, varsSB>>

\* initializeWebGPU rejects: inferWgslType threw inside calculateUniformLayout
InitializeThrows ==
  /\ phase = "initializing"
  /\ calculateUniformLayoutThrows(uniformsRef)
  /\ phase' = "failed"
  /\ error' = thrownMessage(uniformsRef)
  /\ device' = "live"
  /\ UNCHANGED <<varsGL, oscBase, varsAudio, varsTextures, uniformsRef, stateRef, layoutFrom, frameUniforms, allValues, uniformData, varsSB>>

\* the component renders again with new props: uniformsRef.current = options.uniforms
SetUniforms ==
  /\ phase \notin {"pending", "unmounted"}
  /\ \E m \in SessionMaps :
       /\ m # uniformsRef
       /\ uniformsRef' = m
  /\ UNCHANGED <<varsGL, oscBase, varsAudio, varsTextures, varsGPU, varsSB>>

\* Render computing the layout again from the uniforms of the frame
RenderRecomputing ==
  /\ phase = "running"
  /\ stateRef # <<>>
  /\ ~calculateUniformLayoutThrows(uniformsRef)
  /\ LET values == mergeValues(uniformsRef)
         layout == calculateUniformLayout(uniformsRef)
     IN /\ frameUniforms' = <<uniformsRef>>
        /\ allValues' = values
        /\ stateRef' = << [uniformLayout |-> layout] >>
        /\ layoutFrom' = <<uniformsRef>>
        /\ uniformData' = packFields(layout.fields, values, Float32Array(layout.bufferSize \div 4))
  /\ UNCHANGED <<varsGL, oscBase, varsAudio, varsTextures, phase, uniformsRef, error, varsSB, device>>

\* one frame: merge the values, pack them by the layout of the state, upload
Render ==
  /\ phase = "running"
  /\ stateRef # <<>>
  /\ LET values == mergeValues(uniformsRef)
     IN /\ frameUniforms' = <<uniformsRef>>
        /\ allValues' = values
        /\ uniformData' = packFields(uniformLayout.fields, values,
                                     Float32Array(uniformLayout.bufferSize \div 4))
  /\ UNCHANGED <<varsGL, oscBase, varsAudio, varsTextures, phase, uniformsRef, stateRef, layoutFrom, error, varsSB, device>>

\* the effect cleanup
Unmount ==
  /\ phase \notin {"pending", "unmounted"}
  /\ phase' = IF phase = "initializing" THEN "pending" ELSE "unmounted"
  /\ stateRef' = <<>>
  /\ device' = IF stateRef # <<>> THEN "destroyed" ELSE device
  /\ UNCHANGED <<varsGL, oscBase, varsAudio, varsTextures, uniformsRef, layoutFrom, frameUniforms, allValues, uniformData, error, varsSB>>

\* initializeWebGPU resolves after the cleanup set mounted to false: the
\* state is cleaned up and dropped, nothing is published or scheduled
InitializeUnmounted ==
  /\ phase = "pending"
  /\ ~calculateUniformLayoutThrows(uniformsRef)
  /\ phase' = "unmounted"
  /\ device' = "destroyed"
  /\ UNCHANGED <<varsGL, oscBase, varsAudio, varsTextures, uniformsRef, stateRef, layoutFrom, frameUniforms, allValues, uniformData,
                 error, varsSB>>

\* initializeWebGPU rejects after the cleanup: the catch returns at once
InitializeThrowsUnmounted ==
  /\ phase = "pending"
  /\ calculateUniformLayoutThrows(uniformsRef)
  /\ phase' = "unmounted"
  /\ device' = "live"
  /\ UNCHANGED <<varsGL, oscBase, varsAudio, varsTextures, uniformsRef, stateRef, layoutFrom, frameUniforms, allValues, uniformData,
                 error, varsSB>>

\* ------------------------------------------------------------------------
\* Uniform layout and packing of part_006 (no arrays in the uniform buffer)
\* ------------------------------------------------------------------------

\* inferWgslType of part_006: "throw" stands for the thrown Error
inferWgslTypeSB(value) ==
  IF value.t = "number" THEN "f32"
  ELSE IF isVec4(value) THEN "vec4f"
  ELSE IF isVec3(value) THEN "vec3f"
  ELSE IF isVec2(value) THEN "vec2f"
  ELSE "throw"

\* The closure addField of part_006
addFieldSB(acc, name, baseType) ==
  LET alignment == getTypeAlignment(baseType)
      size == getTypeSize(baseType)
      offset == Ceil(acc.offset, alignment) * alignment
  IN [fields |-> Append(acc.fields,
                   [name |-> name, type |-> baseType, offset |-> offset, size |-> size]),
      offset |-> offset + size]

RECURSIVE addFieldsSB(_, _)
addFieldsSB(acc, entries) ==
  IF entries = <<>> THEN acc
  ELSE addFieldsSB(addFieldSB(acc, Head(entries).name, Head(entries).baseType), Tail(entries))

\* the message calculateUniformLayout of part_006 fails with
thrownMessageSB(customUniforms) ==
  LET i == CHOOSE k \in 1..Len(customUniforms) :
             /\ inferWgslTypeSB(customUniforms[k].value) = "throw"
             /\ \A j \in 1..(k - 1) : inferWgslTypeSB(customUniforms[j].value) # "throw"
  IN unsupportedError(customUniforms[i].value)

calculateUniformLayoutSBThrows(customUniforms) ==
  \E i \in 1..Len(customUniforms) : inferWgslTypeSB(customUniforms[i].value) = "throw"

calculateUniformLayoutSB(customUniforms) ==
  LET defaults == addFieldsSB([fields |-> <<>>, offset |-> 0], DEFAULT_UNIFORMS)
      entries == [i \in 1..Len(customUniforms) |->
                    [name |-> customUniforms[i].name,
                     baseType |-> inferWgslTypeSB(customUniforms[i].value)]]
      all == addFieldsSB(defaults, sortEntries(<<>>, entries))
  IN [fields |-> all.fields, bufferSize |-> Ceil(all.offset, 16) * 16]

packUniformValueSB(field, value, floatData) ==
  LET floatOffset == field.offset \div 4
  IN IF value.t = "number" THEN Store(floatData, floatOffset, value.n)
     ELSE IF value.t = "array"
          THEN storeComponents(floatData, floatOffset, value, 0, Length(value))
     ELSE floatData

\* the pack loop of render over layout.fields
RECURSIVE packFieldsSB(_, _, _)
packFieldsSB(fields, values, floatData) ==
  IF fields = <<>> THEN floatData
  ELSE LET value == Lookup(values, Head(fields).name)
       IN packFieldsSB(Tail(fields), values,
                       IF value = Undefined THEN floatData
                       ELSE packUniformValueSB(Head(fields), value, floatData))

\* ------------------------------------------------------------------------
\* The GPU device: buffers and the writes of the queue
\* ------------------------------------------------------------------------

\* device.createBuffer({ size }): a zero filled buffer is added, its handle
\* is its index
createBuffer(buffers, size) ==
  Append(buffers, [size |-> size, data |-> Float32Array(size \div 4), destroyed |-> FALSE,
                   destroys |-> 0, misused |-> FALSE])

\* buffer.destroy(): the memory of the buffer is released; destroys counts
\* the calls
destroyBuffer(buffers, id) ==
  [buffers EXCEPT ![id] = [size |-> buffers[id].size, data |-> Float32Array(0), destroyed |-> TRUE,
                           destroys |-> buffers[id].destroys + 1,
                           misused |-> buffers[id].misused]]

\* device.queue.writeBuffer(buffer, 0, arr, 0, count): the first count floats
\* of arr; a write to a destroyed buffer or beyond its size is a validation
\* error and changes nothing; misused records a write to a destroyed buffer
copyFloats(data, arr, count) ==
  [k \in DOMAIN data |-> IF k < count THEN arr[k] ELSE data[k]]

writeBuffer(buffers, id, arr, count) ==
  IF buffers[id].destroyed THEN [buffers EXCEPT ![id].misused = TRUE]
  ELSE IF count * 4 > buffers[id].size THEN buffers
  ELSE [buffers EXCEPT ![id].data = copyFloats(buffers[id].data, arr, count)]

\* ------------------------------------------------------------------------
\* Storage buffers (part_006)
\* ------------------------------------------------------------------------

\* the names a storage buffer may have, in ascending string order
StorageNamePool == <<"lights", "particles">>

Max(a, b) == IF a >= b THEN a ELSE b

\* the loop that packs data into a scratch array, 4 floats per element
RECURSIVE packElements(_, _, _)
packElements(arr, data, i) ==
  IF i >= Length(data) THEN arr
  ELSE packElements(storeComponents(arr, i * 4, At(data, i), 0, 4), data, i + 1)

\* Object.keys(defs).sort()
getStorageBufferNames(defs) ==
  LET present == {k \in 1..Len(StorageNamePool) :
                    \E i \in 1..Len(defs) : defs[i].name = StorageNamePool[k]}
      RECURSIVE ascending(_)
      ascending(k) ==
        IF k > Len(StorageNamePool) THEN <<>>
        ELSE (IF k \in present THEN <<StorageNamePool[k]>> ELSE <<>>) \o ascending(k + 1)
  IN ascending(1)

\* createStorageBuffer without the floor of 1 element
createStorageBufferUnfloored(buffers, name, binding, data) ==
  LET length == Length(data)
      byteSize == length * 16
      created == createBuffer(buffers, byteSize)
      buffer == Len(created)
      packingArray == packElements(Float32Array(length * 4), data, 0)
  IN [buffers |-> writeBuffer(created, buffer, packingArray, length * 4),
      entry |-> [name |-> name, binding |-> binding, buffer |-> buffer,
                 currentLength |-> length, dataLength |-> Length(data),
                 packingArray |-> packingArray]]

\* createStorageBuffer: the device after the call and the new entry
createStorageBuffer(buffers, name, binding, data) ==
  LET length == Max(Length(data), 1)
      byteSize == length * 16
      created == createBuffer(buffers, byteSize)
      buffer == Len(created)
      packingArray == packElements(Float32Array(length * 4), data, 0)
  IN [buffers |-> writeBuffer(created, buffer, packingArray, length * 4),
      entry |-> [name |-> name, binding |-> binding, buffer |-> buffer,
                 currentLength |-> length, dataLength |-> Length(data),
                 packingArray |-> packingArray]]

\* packAndUploadStorageBuffer uploading the scratch array as it is
packAndUploadStale(buffers, entry, data) ==
  LET uploadLength == Max(entry.dataLength, 1)
  IN [buffers |-> writeBuffer(buffers, entry.buffer, entry.packingArray, uploadLength * 4),
      entry |-> entry]

\* packAndUploadStorageBuffer: the device and the entry after the call
packAndUploadStorageBuffer(buffers, entry, data) ==
  LET arr == packElements(entry.packingArray, data, 0)
      uploadLength == Max(entry.dataLength, 1)
  IN [buffers |-> writeBuffer(buffers, entry.buffer, arr, uploadLength * 4),
      entry |-> [entry EXCEPT !.packingArray = arr]]

\* the entries of a bind group: slot 0 is the uniform buffer
bindGroupEntries(uniformBuffer, storageBuffers) ==
  <<[binding |-> 0, buffer |-> uniformBuffer]>>
    \o [i \in 1..Len(storageBuffers) |->
          [binding |-> storageBuffers[i].binding, buffer |-> storageBuffers[i].buffer]]

\* rebuildBindGroup handing back the bind group of the state
rebuildBindGroupCached(state) == state.uniformBindGroup

\* rebuildBindGroup: a new bind group object over the current buffers
rebuildBindGroup(state) ==
  [id |-> state.uniformBindGroup.id + 1,
   entries |-> bindGroupEntries(state.uniformBuffer, state.storageBuffers)]

\* the allocation without the factor 1.5
allocLengthExact(requiredLength) == Max(requiredLength, 1)

\* requiredLength * 1.5 rounded up
allocLengthFor(requiredLength) == Max(Ceil(requiredLength * 3, 2), 1)

\* the resize test of render without the shrink test
needsResizeGrowOnly(requiredLength, currentLength) == requiredLength > currentLength

\* the resize test of render with the grow test off by one
needsResizeLate(requiredLength, currentLength) ==
  requiredLength > currentLength + 1 \/ requiredLength * 2 < currentLength

\* the resize test of render without the grow test
needsResizeShrinkOnly(requiredLength, currentLength) == requiredLength * 2 < currentLength

\* the resize test of render with <= in the shrink test
needsResizeEager(requiredLength, currentLength) ==
  requiredLength > currentLength \/ requiredLength * 2 <= currentLength

\* the resize test of render: requiredLength > currentLength or
\* requiredLength < currentLength / 2
needsResize(requiredLength, currentLength) ==
  requiredLength > currentLength \/ requiredLength * 2 < currentLength

\* the body of the loop of render over state.storageBuffers, for entry i:
\* acc holds the device, the entries and needsBindGroupRebuild
updateStorageBuffer(acc, i, storageBuffers) ==
  LET entry == acc.entries[i]
      data == Lookup(storageBuffers, entry.name)
      requiredLength == Max(Length(data), 1)
      resize == needsResize(requiredLength, entry.currentLength)
      allocLength == allocLengthFor(requiredLength)
      created == createBuffer(destroyBuffer(acc.buffers, entry.buffer), allocLength * 16)
      sized == IF resize
               THEN [entry EXCEPT !.buffer = Len(created),
                                  !.packingArray = Float32Array(allocLength * 4),
                                  !.currentLength = allocLength]
               ELSE entry
      uploaded == packAndUploadStorageBuffer(IF resize THEN created ELSE acc.buffers,
                                             [sized EXCEPT !.dataLength = Length(data)], data)
  IN IF data = Undefined THEN acc
     ELSE [buffers |-> uploaded.buffers,
           entries |-> [acc.entries EXCEPT ![i] = uploaded.entry],
           needsBindGroupRebuild |-> acc.needsBindGroupRebuild \/ resize]

\* for (const entry of state.storageBuffers) ..., from entry i on
RECURSIVE updateStorageBuffers(_, _, _)
updateStorageBuffers(acc, i, storageBuffers) ==
  IF i > Len(acc.entries) THEN acc
  ELSE updateStorageBuffers(updateStorageBuffer(acc, i, storageBuffers), i + 1, storageBuffers)

\* storageBufferNames.map with the index of the name as its slot
RECURSIVE createStorageBuffersFromZero(_, _, _, _)
createStorageBuffersFromZero(acc, names, i, defs) ==
  IF i > Len(names) THEN acc
  ELSE LET data == Lookup(defs, names[i])
           made == createStorageBuffer(acc.buffers, names[i], i - 1,
                                       IF data = Undefined THEN Arr(<<>>) ELSE data)
       IN createStorageBuffersFromZero(
            [buffers |-> made.buffers, entries |-> Append(acc.entries, made.entry)],
            names, i + 1, defs)

\* storageBufferNames.map((name, i) => createStorageBuffer(device, name, i + 1, defs[name]))
RECURSIVE createStorageBuffers(_, _, _, _)
createStorageBuffers(acc, names, i, defs) ==
  IF i > Len(names) THEN acc
  ELSE LET data == Lookup(defs, names[i])
           made == createStorageBuffer(acc.buffers, names[i], i,
                                       IF data = Undefined THEN Arr(<<>>) ELSE data)
       IN createStorageBuffers([buffers |-> made.buffers, entries |-> Append(acc.entries, made.entry)],
                               names, i + 1, defs)

\* ------------------------------------------------------------------------
\* Inputs: the storage data a caller may supply
\* ------------------------------------------------------------------------

\* longest dataset supplied for a storage buffer
MaxDataLen == 2

\* number of GPU buffers a session may create
MaxBuffers == 5

StorageNames == {StorageNamePool[i] : i \in 1..Len(StorageNamePool)}

\* the dataset of n elements; two datasets differ in every element they
\* both have, and no float of a dataset is 0
StorageData(n) ==
  Arr([i \in 1..n |-> Vec(<<100 * n + 4 * i - 3, 100 * n + 4 * i - 2,
                           100 * n + 4 * i - 1, 100 * n + 4 * i>>)])

Datasets == {StorageData(n) : n \in 0..MaxDataLen}

RECURSIVE StorageMapsOfLen(_)
StorageMapsOfLen(n) ==
  IF n = 0 THEN {<<>>}
  ELSE {Append(m, [name |-> nm, value |-> v]) :
          m \in StorageMapsOfLen(n - 1), nm \in StorageNames, v \in Datasets}

StorageMaps ==
  {m \in UNION {StorageMapsOfLen(n) : n \in 0..Len(StorageNamePool)} : HasDistinctNames(m)}

\* the custom uniforms of a session with storage buffers
StorageUniformMaps ==
  { <<[name |-> "scale", value |-> Num(2)]>>, <<[name |-> "scale", value |-> Arr(<<>>)]>> }

\* ------------------------------------------------------------------------
\* The render session of part_006
\* ------------------------------------------------------------------------

\* requestAnimationFrame(render) with its id stored in animationFrameRef: a
\* callback that was pending under the id stored before is no longer the
\* one cancelAnimationFrame(animationFrameRef.current) reaches
requestAnimationFrameSB(pending) ==
  [current |-> 1, stale |-> pending.stale + pending.current]

\* the browser runs the pending callback that was requested first
runFrame(pending) ==
  IF pending.stale > 0 THEN [pending EXCEPT !.stale = pending.stale - 1]
  ELSE [pending EXCEPT !.current = 0]

\* cancelAnimationFrame(animationFrameRef.current)
cancelAnimationFrameSB(pending) == [pending EXCEPT !.current = 0]

sbState == sbStateRef[1]

\* initializeWebGPU resolves: layout, uniform buffer, one storage buffer per
\* name in sorted order at slot i + 1, bind group; initialize publishes the
\* state and allocates the float buffer of the uniforms
InitializeSB ==
  /\ sbPhase = "initializing"
  /\ ~calculateUniformLayoutSBThrows(uniformsRef)
  /\ LET layout == calculateUniformLayoutSB(uniformsRef)
         withUniform == createBuffer(gpuBuffers, layout.bufferSize)
         uniformBuffer == Len(withUniform)
         made == createStorageBuffers([buffers |-> withUniform, entries |-> <<>>],
                                      getStorageBufferNames(storageBuffersRef), 1,
                                      storageBuffersRef)
     IN /\ gpuBuffers' = made.buffers
        /\ sbStateRef' = << [uniformLayout |-> layout,
                             uniformBuffer |-> uniformBuffer,
                             storageBuffers |-> made.entries,
                             uniformBindGroup |->
                               [id |-> 1,
                                entries |-> bindGroupEntries(uniformBuffer, made.entries)]] >>
        /\ uniformDataRef' = Float32Array(layout.bufferSize \div 4)
  /\ sbPhase' = "running"
  /\ sbPendingFrames' = requestAnimationFrameSB(sbPendingFrames)
  /\ sbDevice' = "live"
  /\ UNCHANGED <<varsGL, oscBase, varsAudio, varsTextures, sbError, uniformsRef, varsGPU, storageBuffersRef, allValuesRef, frameTick, lastDraw, sbLastFrame>>

\* initializeWebGPU rejects: inferWgslType threw inside calculateUniformLayout
InitializeSBThrows ==
  /\ sbPhase = "initializing"
  /\ calculateUniformLayoutSBThrows(uniformsRef)
  /\ sbPhase' = "failed"
  /\ sbError' = thrownMessageSB(uniformsRef)
  /\ sbDevice' = "live"
  /\ UNCHANGED <<varsGL, oscBase, varsAudio, varsTextures, uniformsRef, varsGPU, sbStateRef, storageBuffersRef, gpuBuffers, allValuesRef,
                 uniformDataRef, frameTick, lastDraw, sbPendingFrames, sbLastFrame>>

\* the map without the entry of a name
RECURSIVE without(_, _)
without(m, name) ==
  IF m = <<>> THEN <<>>
  ELSE IF Head(m).name = name THEN without(Tail(m), name)
       ELSE <<Head(m)>> \o without(Tail(m), name)

\* the entries of m under the names of the list, in the order of the list
RECURSIVE pick(_, _)
pick(m, names) ==
  IF names = <<>> THEN <<>>
  ELSE (IF Lookup(m, Head(names)) # Undefined
        THEN <<[name |-> Head(names), value |-> Lookup(m, Head(names))]>>
        ELSE <<>>) \o pick(m, Tail(names))

\* the component renders again with new props:
\* storageBuffersRef.current = options.storageBuffers. One render changes,
\* adds or drops the dataset of one name; renders between two frames
\* compose to any change of the map. A frame looks the data up by name, so
\* the new map is taken with its names in ascending order
SetStorageBuffers ==
  /\ sbPhase \notin {"pending", "unmounted"}
  /\ \E name \in StorageNames :
       \/ \E data \in Datasets :
            /\ Lookup(storageBuffersRef, name) # data
            /\ storageBuffersRef' = pick(Put(storageBuffersRef, name, data), StorageNamePool)
       \/ /\ Lookup(storageBuffersRef, name) # Undefined
          /\ storageBuffersRef' = pick(without(storageBuffersRef, name), StorageNamePool)
  /\ UNCHANGED <<varsGL, oscBase, varsAudio, varsTextures, sbError, uniformsRef, varsGPU, sbPhase, sbStateRef, gpuBuffers, allValuesRef,
                 uniformDataRef, frameTick, lastDraw, sbPendingFrames, sbLastFrame, sbDevice>>

\* the value map of a frame: the defaults and the customs stored into the
\* map kept across frames
mergeValuesSB(values, customs) == spread(spread(values, defaultValues), customs)

\* one frame: pack and upload the uniforms, resize, pack and upload every
\* storage buffer that has data, rebuild the bind group after a resize, draw
RenderSB ==
  /\ sbPhase = "running"
  /\ sbStateRef # <<>>
  /\ sbPendingFrames.current + sbPendingFrames.stale > 0
  /\ LET values == mergeValuesSB(allValuesRef, uniformsRef)
         packed == packFieldsSB(sbState.uniformLayout.fields, values, uniformDataRef)
         uploaded == writeBuffer(gpuBuffers, sbState.uniformBuffer, packed,
                                 sbState.uniformLayout.bufferSize \div 4)
         updated == updateStorageBuffers(
                      [buffers |-> uploaded, entries |-> sbState.storageBuffers,
                       needsBindGroupRebuild |-> FALSE], 1, storageBuffersRef)
         resized == [sbState EXCEPT !.storageBuffers = updated.entries]
         bound == IF updated.needsBindGroupRebuild
                  THEN [resized EXCEPT !.uniformBindGroup = rebuildBindGroup(resized)]
                  ELSE resized
     IN /\ Len(updated.buffers) <= MaxBuffers
        /\ allValuesRef' = values
        /\ uniformDataRef' = packed
        /\ gpuBuffers' = updated.buffers
        /\ sbStateRef' = <<bound>>
        /\ frameTick' = 1 - frameTick
        /\ lastDraw' = <<bound.uniformBindGroup>>
  /\ sbPendingFrames' = requestAnimationFrameSB(runFrame(sbPendingFrames))
  /\ sbLastFrame' = "drawn"
  /\ UNCHANGED <<varsGL, oscBase, varsAudio, varsTextures, sbError, uniformsRef, varsGPU, sbPhase, storageBuffersRef, sbDevice>>

\* one render invocation while the canvas has zero size: render returns after
\* requestAnimationFrame(render), before the merge, the pack and the uploads
RenderSBZeroSize ==
  /\ sbPhase = "running"
  /\ sbStateRef # <<>>
  /\ sbPendingFrames.current + sbPendingFrames.stale > 0
  /\ sbPendingFrames' = requestAnimationFrameSB(runFrame(sbPendingFrames))
  /\ sbLastFrame' = "skipped"
  /\ UNCHANGED <<varsGL, oscBase, varsAudio, varsTextures, sbError, uniformsRef, varsGPU, sbPhase, sbStateRef, storageBuffersRef,
                 gpuBuffers, allValuesRef, uniformDataRef, frameTick, lastDraw, sbDevice>>

\* destroy every buffer of the list
RECURSIVE destroyBuffers(_, _)
destroyBuffers(buffers, ids) ==
  IF ids = <<>> THEN buffers
  ELSE destroyBuffers(destroyBuffer(buffers, Head(ids)), Tail(ids))

\* cleanupWebGPU without the destroy of the uniform buffer
cleanupWebGPUSBStorageOnly(buffers, state) ==
  destroyBuffers(buffers,
                 [i \in 1..Len(state.storageBuffers) |-> state.storageBuffers[i].buffer])

\* cleanupWebGPU
cleanupWebGPUSB(buffers, state) ==
  destroyBuffers(buffers,
                 [i \in 1..Len(state.storageBuffers) |-> state.storageBuffers[i].buffer]
                   \o <<state.uniformBuffer>>)

\* the effect cleanup without cancelAnimationFrame
UnmountSBKeepsFrame ==
  /\ sbPhase \notin {"pending", "unmounted"}
  /\ sbPhase' = IF sbPhase = "initializing" THEN "pending" ELSE "unmounted"
  /\ gpuBuffers' = IF sbStateRef # <<>> THEN cleanupWebGPUSB(gpuBuffers, sbState) ELSE gpuBuffers
  /\ sbStateRef' = <<>>
  /\ sbDevice' = IF sbStateRef # <<>> THEN "destroyed" ELSE sbDevice
  /\ UNCHANGED <<varsGL, oscBase, varsAudio, varsTextures, sbError, uniformsRef, varsGPU, storageBuffersRef, allValuesRef, uniformDataRef,
                 frameTick, lastDraw, sbLastFrame, sbPendingFrames>>

\* the effect cleanup
UnmountSB ==
  /\ sbPhase \notin {"pending", "unmounted"}
  /\ sbPhase' = IF sbPhase = "initializing" THEN "pending" ELSE "unmounted"
  /\ gpuBuffers' = IF sbStateRef # <<>> THEN cleanupWebGPUSB(gpuBuffers, sbState) ELSE gpuBuffers
  /\ sbStateRef' = <<>>
  /\ sbPendingFrames' = cancelAnimationFrameSB(sbPendingFrames)
  /\ sbDevice' = IF sbStateRef # <<>> THEN "destroyed" ELSE sbDevice
  /\ UNCHANGED <<varsGL, oscBase, varsAudio, varsTextures, sbError, uniformsRef, varsGPU, storageBuffersRef, allValuesRef, uniformDataRef,
                 frameTick, lastDraw, sbLastFrame>>

\* what initializeWebGPU of part_006 creates: the buffers and the state
initializeWebGPUSB ==
  LET layout == calculateUniformLayoutSB(uniformsRef)
      withUniform == createBuffer(gpuBuffers, layout.bufferSize)
      uniformBuffer == Len(withUniform)
      made == createStorageBuffers([buffers |-> withUniform, entries |-> <<>>],
                                   getStorageBufferNames(storageBuffersRef), 1,
                                   storageBuffersRef)
  IN [buffers |-> made.buffers,
      state |-> [uniformLayout |-> layout,
                 uniformBuffer |-> uniformBuffer,
                 storageBuffers |-> made.entries,
                 uniformBindGroup |->
                   [id |-> 1, entries |-> bindGroupEntries(uniformBuffer, made.entries)]]]

\* initializeWebGPU resolving after the cleanup, the state dropped without
\* cleanupWebGPU
InitializeSBUnmountedLeaks ==
  /\ sbPhase = "pending"
  /\ ~calculateUniformLayoutSBThrows(uniformsRef)
  /\ gpuBuffers' = initializeWebGPUSB.buffers
  /\ sbPhase' = "unmounted"
  /\ sbDevice' = "live"
  /\ UNCHANGED <<varsGL, oscBase, varsAudio, varsTextures, sbError, uniformsRef, varsGPU, sbStateRef, storageBuffersRef, allValuesRef,
                 uniformDataRef, frameTick, lastDraw, sbPendingFrames, sbLastFrame>>

\* initializeWebGPU resolves after the cleanup set mounted to false:
\* cleanupWebGPU(state), and the state is dropped
InitializeSBUnmounted ==
  /\ sbPhase = "pending"
  /\ ~calculateUniformLayoutSBThrows(uniformsRef)
  /\ gpuBuffers' = cleanupWebGPUSB(initializeWebGPUSB.buffers, initializeWebGPUSB.state)
  /\ sbPhase' = "unmounted"
  /\ sbDevice' = "destroyed"
  /\ UNCHANGED <<varsGL, oscBase, varsAudio, varsTextures, sbError, uniformsRef, varsGPU, sbStateRef, storageBuffersRef, allValuesRef,
                 uniformDataRef, frameTick, lastDraw, sbPendingFrames, sbLastFrame>>

\* initializeWebGPU rejects after the cleanup: the catch returns at once
InitializeSBThrowsUnmounted ==
  /\ sbPhase = "pending"
  /\ calculateUniformLayoutSBThrows(uniformsRef)
  /\ sbPhase' = "unmounted"
  /\ sbDevice' = "live"
  /\ UNCHANGED <<varsGL, oscBase, varsAudio, varsTextures, sbError, uniformsRef, varsGPU, sbStateRef, storageBuffersRef, gpuBuffers,
                 allValuesRef, uniformDataRef, frameTick, lastDraw, sbPendingFrames, sbLastFrame>>

\* ------------------------------------------------------------------------
\* Uniforms of the WebGL renderer (part_015)
\* ------------------------------------------------------------------------

MAX_ARRAY_LENGTH == 100

isFloatArray(value) ==
  value.t = "array" /\ Length(value) > 4 /\ At(value, 0).t = "number"

isVec2Array(value) ==
  value.t = "array" /\ Length(value) > 0 /\ At(value, 0).t = "array" /\ Length(At(value, 0)) = 2

isVec3Array(value) ==
  value.t = "array" /\ Length(value) > 0 /\ At(value, 0).t = "array" /\ Length(At(value, 0)) = 3

isArrayUniform(value) ==
  isFloatArray(value) \/ isVec2Array(value) \/ isVec3Array(value) \/ isVec4Array(value)

\* getUniformType, the string as type.split("[") cuts it: <<type>>, or
\* <<baseType, arrayPart>> for `baseType[${MAX_ARRAY_LENGTH}]`
getUniformType(value) ==
  LET arrayPart == ToString(MAX_ARRAY_LENGTH) \o "]"
  IN IF value.t = "number" THEN <<"float">>
     ELSE IF isVec4Array(value) THEN <<"vec4", arrayPart>>
     ELSE IF isVec3Array(value) THEN <<"vec3", arrayPart>>
     ELSE IF isVec2Array(value) THEN <<"vec2", arrayPart>>
     ELSE IF isFloatArray(value) THEN <<"float", arrayPart>>
     ELSE IF isVec4(value) THEN <<"vec4">>
     ELSE IF isVec3(value) THEN <<"vec3">>
     ELSE IF isVec2(value) THEN <<"vec2">>
     ELSE <<"float">>

\* generateUniformDeclarations with the number of elements as the array size
RECURSIVE generateUniformDeclarationsByLength(_)
generateUniformDeclarationsByLength(uniforms) ==
  IF uniforms = <<>> THEN <<>>
  ELSE LET name == Head(uniforms).name
           type == getUniformType(Head(uniforms).value)
       IN (IF Len(type) = 2
           THEN << <<"uniform ", type[1], " ", name, "[",
                     ToString(Length(Head(uniforms).value)) \o "]", ";">>,
                   <<"uniform int ", name, "_count;">> >>
           ELSE << <<"uniform ", type[1], " ", name, ";">> >>)
            \o generateUniformDeclarationsByLength(Tail(uniforms))

\* generateUniformDeclarations: the lines that are joined by "\n", each line
\* as the parts of its template literal
RECURSIVE generateUniformDeclarations(_)
generateUniformDeclarations(uniforms) ==
  IF uniforms = <<>> THEN <<>>
  ELSE LET name == Head(uniforms).name
           type == getUniformType(Head(uniforms).value)
       IN (IF Len(type) = 2
           THEN << <<"uniform ", type[1], " ", name, "[", type[2], ";">>,
                   <<"uniform int ", name, "_count;">> >>
           ELSE << <<"uniform ", type[1], " ", name, ";">> >>)
            \o generateUniformDeclarations(Tail(uniforms))

\* injectUniformDeclarations of a source that holds the marker: the
\* declarations of { ...defaultUniforms, ...customUniforms }
injectUniformDeclarations(customUniforms, defaultUniforms) ==
  generateUniformDeclarations(spread(defaultUniforms, customUniforms))

\* the uniform a declaration declares: its name and its type
declaredUniform(line) ==
  IF Len(line) = 3 THEN [name |-> line[2] \o "_count", type |-> "int"]
  ELSE [name |-> line[4], type |-> line[2]]

\* a WebGLUniformLocation of the program, and null
Location(name) == [t |-> "location", n |-> 0, e |-> <<>>, of |-> name]

Null == [t |-> "null", n |-> 0, e |-> <<>>]

\* gl.getUniformLocation: null when the program has no uniform of the name
getUniformLocation(program, name) ==
  IF \E k \in 1..Len(program.uniforms) : program.uniforms[k].name = name
  THEN Location(name) ELSE Null

\* value.flat() of an array of tuples
RECURSIVE flatten(_)
flatten(elements) ==
  IF elements = <<>> THEN <<>> ELSE Head(elements).e \o flatten(Tail(elements))

flat(value) == Arr(flatten(value.e))

\* a gl.uniform* call: the uniform takes the value when the call fits the
\* type the program declares for it (an INVALID_OPERATION leaves it as it was)
uniform(uniforms, program, location, type, value) ==
  IF \E k \in 1..Len(program.uniforms) :
       program.uniforms[k].name = location.of /\ program.uniforms[k].type = type
  THEN Put(uniforms, location.of, value)
  ELSE uniforms

\* setUniform
setUniform(uniforms, program, location, value) ==
  IF location = Null THEN uniforms
  ELSE IF value.t = "number" THEN uniform(uniforms, program, location, "float", value)
  ELSE IF isVec4Array(value) THEN uniform(uniforms, program, location, "vec4", flat(value))
  ELSE IF isVec3Array(value) THEN uniform(uniforms, program, location, "vec3", flat(value))
  ELSE IF isVec2Array(value) THEN uniform(uniforms, program, location, "vec2", flat(value))
  ELSE IF isFloatArray(value) THEN uniform(uniforms, program, location, "float", value)
  ELSE IF isVec4(value) THEN uniform(uniforms, program, location, "vec4", value)
  ELSE IF isVec3(value) THEN uniform(uniforms, program, location, "vec3", value)
  ELSE IF isVec2(value) THEN uniform(uniforms, program, location, "vec2", value)
  ELSE uniforms

\* the location of a name, by the cache, and the cache after the lookup
cachedLocation(locationCache, program, name) ==
  LET cached == Lookup(locationCache, name)
      location == IF cached = Undefined THEN getUniformLocation(program, name) ELSE cached
  IN [location |-> location,
      cache |-> IF cached = Undefined THEN Put(locationCache, name, location)
                ELSE locationCache]

\* the body of the loop of setUniforms for one entry
setUniformsEntry(acc, program, name, value) ==
  LET found == cachedLocation(acc.cache, program, name)
      set == setUniform(acc.uniforms, program, found.location, value)
      count == cachedLocation(found.cache, program, name \o "_count")
  IN IF isArrayUniform(value)
     THEN [uniforms |-> IF count.location # Null
                        THEN uniform(set, program, count.location, "int", Num(Length(value)))
                        ELSE set,
           cache |-> count.cache]
     ELSE [uniforms |-> set, cache |-> found.cache]

\* setUniforms: acc holds the uniforms of the program and the location cache
RECURSIVE setUniforms(_, _, _)
setUniforms(acc, program, uniforms) ==
  IF uniforms = <<>> THEN acc
  ELSE setUniforms(setUniformsEntry(acc, program, Head(uniforms).name, Head(uniforms).value),
                   program, Tail(uniforms))

\* ------------------------------------------------------------------------
\* The render session of part_004 (useWebGL)
\* ------------------------------------------------------------------------

\* a vec2 array of n points, point k being [2k - 1, 2k]
PointArray(n) == Arr([k \in 1..n |-> Vec(<<2 * k - 1, 2 * k>>)])

\* array values of the WebGL renderer: a float array, vec2 arrays and vec4
\* arrays
GLArrays ==
  {Vec(<<1, 2, 3, 4, 5>>)}
    \cup {PointArray(n) : n \in 1..MaxArrayLen}
    \cup {SampleArray(n) : n \in 1..MaxArrayLen}

\* the custom uniform maps of a session of the WebGL renderer: none, a
\* number or a vec3 named scale, an array named points
GLMaps ==
  {<<>>}
    \cup {<<[name |-> "scale", value |-> v]>> : v \in {Num(2), Vec(<<5, 6, 7>>)}}
    \cup {<<[name |-> "points", value |-> v]>> : v \in GLArrays}

\* frame callbacks run in a session
MaxClock == 3

\* calls of initializeWebGL in a session
MaxInits == 3

DEFAULT_UNIFORM_TYPES ==
  << [name |-> "iTime", value |-> Num(0)],
     [name |-> "iMouse", value |-> Vec(<<0, 0>>)],
     [name |-> "iMouseNormalized", value |-> Vec(<<0, 0>>)],
     [name |-> "iMouseLeftDown", value |-> Num(0)],
     [name |-> "iResolution", value |-> Vec(<<0, 0>>)] >>

\* defaultUniformsRef.current as render fills it (a fixed sample of pointer
\* and resolution)
defaultUniforms(elapsedTime) ==
  << [name |-> "iTime", value |-> Num(elapsedTime)],
     [name |-> "iMouse", value |-> Vec(<<4, 2>>)],
     [name |-> "iMouseNormalized", value |-> Vec(<<1, 1>>)],
     [name |-> "iMouseLeftDown", value |-> Num(1)],
     [name |-> "iResolution", value |-> Vec(<<8, 6>>)] >>

\* the WebGLState initializeWebGL returns when it does not throw: the
\* program compiled from the sources with the declarations injected
initializeWebGL(customUniforms) ==
  LET declarations == injectUniformDeclarations(customUniforms, DEFAULT_UNIFORM_TYPES)
  IN [program |-> [id |-> glPrograms + 1,
                   declarations |-> declarations,
                   uniforms |-> [k \in 1..Len(declarations) |->
                                   declaredUniform(declarations[k])]],
      uniformLocationCache |-> <<>>]

\* requestAnimationFrame(render), kept in animationFrameRef.current
requestAnimationFrame(pending) ==
  /\ rafCount' = rafCount + 1
  /\ animationFrameRef' = rafCount + 1
  /\ pendingFrames' = pending \cup {rafCount + 1}

\* initialize of the effect; ok: initializeWebGL returns, else it throws
\* (no context, a shader that does not compile, no a_position)
initialize(ok) ==
  IF ok
  THEN /\ glStateRef' = <<initializeWebGL(uniformsRef)>>
       /\ glPrograms' = glPrograms + 1
       /\ glUniforms' = <<>>
       /\ elapsedTimeRef' = 0
       /\ lastFrameTimeRef' = 0
       /\ contextLostRef' = FALSE
       /\ requestAnimationFrame(pendingFrames)
       /\ UNCHANGED glErrors
  ELSE /\ glErrors' = glErrors + 1
       /\ UNCHANGED <<glStateRef, glPrograms, glUniforms, elapsedTimeRef, lastFrameTimeRef,
                      contextLostRef, rafCount, animationFrameRef, pendingFrames>>

\* the effect runs: the listeners are added and initialize is called
MountGL ==
  /\ glPhase = "idle"
  /\ glPhase' = "mounted"
  /\ \E ok \in BOOLEAN : initialize(ok)
  /\ UNCHANGED <<glFrameUniforms, glContext, glDraws, clock,
                 uniformsRef, varsGPU, varsSB, oscBase, varsAudio, varsTextures>>

\* the component renders again with new props: uniformsRef.current = options.uniforms
SetUniformsGL ==
  /\ glPhase # "unmounted"
  /\ \E m \in GLMaps :
       /\ m # uniformsRef
       /\ uniformsRef' = m
  /\ UNCHANGED <<varsGL, varsGPU, varsSB, oscBase, varsAudio, varsTextures>>

\* a frame callback runs: render(time)
RenderGL ==
  /\ clock < MaxClock
  /\ \E id \in pendingFrames, zeroSize \in BOOLEAN :
       LET time == clock + 1
           deltaTime == IF lastFrameTimeRef = 0 THEN 0 ELSE time - lastFrameTimeRef
           elapsedTime == elapsedTimeRef + deltaTime
           state == glStateRef[1]
           set == setUniforms([uniforms |-> glUniforms, cache |-> state.uniformLocationCache],
                              state.program, spread(defaultUniforms(elapsedTime), uniformsRef))
       IN /\ clock' = time
          /\ IF contextLostRef \/ glStateRef = <<>>
             THEN /\ pendingFrames' = pendingFrames \ {id}
                  /\ UNCHANGED <<lastFrameTimeRef, elapsedTimeRef, glStateRef, glUniforms,
                                 glDraws, glFrameUniforms, rafCount, animationFrameRef>>
             ELSE /\ lastFrameTimeRef' = time
                  /\ elapsedTimeRef' = elapsedTime
                  /\ requestAnimationFrame(pendingFrames \ {id})
                  /\ IF zeroSize
                     THEN UNCHANGED <<glStateRef, glUniforms, glDraws, glFrameUniforms>>
                     ELSE /\ glUniforms' = set.uniforms
                          /\ glStateRef' = <<[state EXCEPT !.uniformLocationCache = set.cache]>>
                          /\ glDraws' = glDraws + 1
                          /\ glFrameUniforms' = <<uniformsRef>>
  /\ UNCHANGED <<glPhase, contextLostRef, glErrors, glContext, glPrograms,
                 uniformsRef, varsGPU, varsSB, oscBase, varsAudio, varsTextures>>

\* handleContextLost without cancelAnimationFrame
handleContextLostKeepsFrame ==
  /\ glPhase = "mounted"
  /\ glContext = "ok"
  /\ glPrograms + glErrors < MaxInits
  /\ glContext' = "lost"
  /\ contextLostRef' = TRUE
  /\ glStateRef' = <<>>
  /\ UNCHANGED <<glPhase, animationFrameRef, elapsedTimeRef, lastFrameTimeRef, glFrameUniforms,
                 glErrors, glUniforms, glPrograms, glDraws, pendingFrames, rafCount, clock,
                 uniformsRef, varsGPU, varsSB, oscBase, varsAudio, varsTextures>>

\* webglcontextlost: handleContextLost
handleContextLost ==
  /\ glPhase = "mounted"
  /\ glContext = "ok"
  /\ glPrograms + glErrors < MaxInits
  /\ glContext' = "lost"
  /\ contextLostRef' = TRUE
  /\ pendingFrames' = pendingFrames \ {animationFrameRef}
  /\ glStateRef' = <<>>
  /\ UNCHANGED <<glPhase, animationFrameRef, elapsedTimeRef, lastFrameTimeRef, glFrameUniforms,
                 glErrors, glUniforms, glPrograms, glDraws, rafCount, clock,
                 uniformsRef, varsGPU, varsSB, oscBase, varsAudio, varsTextures>>

\* webglcontextrestored: handleContextRestored
handleContextRestored ==
  /\ glPhase = "mounted"
  /\ glContext = "lost"
  /\ glContext' = "ok"
  /\ \E ok \in BOOLEAN : initialize(ok)
  /\ UNCHANGED <<glPhase, glFrameUniforms, glDraws, clock, uniformsRef, varsGPU, varsSB, oscBase, varsAudio, varsTextures>>

\* the effect cleanup
UnmountGL ==
  /\ glPhase = "mounted"
  /\ glPhase' = "unmounted"
  /\ pendingFrames' = pendingFrames \ {animationFrameRef}
  /\ glStateRef' = <<>>
  /\ UNCHANGED <<contextLostRef, animationFrameRef, elapsedTimeRef, lastFrameTimeRef,
                 glFrameUniforms, glErrors, glContext, glUniforms, glPrograms, glDraws,
                 rafCount, clock, uniformsRef, varsGPU, varsSB, oscBase, varsAudio, varsTextures>>

\* ------------------------------------------------------------------------
\* The audio capture of part_005 (useAudio), source "microphone"
\* ------------------------------------------------------------------------

\* number of start() calls that pass the first test of start
MaxStarts == 3

InitAudio ==
  /\ audioStateRef = <<>>
  /\ dataArrayRef = <<>>
  /\ connectionState = "disconnected"
  /\ isRunning = FALSE
  /\ levels = "zero"
  /\ audioError = <<>>
  /\ starts = <<>>
  /\ audioFrames = [current |-> 0, stale |-> 0]
  /\ lastCall = "none"

\* start() up to its first await: nothing when audioStateRef.current is set;
\* else a new AudioContext, awaited to resume when it is suspended, then the
\* analyser and the call of getUserMedia, which is awaited
start ==
  /\ lastCall' = "start"
  /\ IF audioStateRef # <<>>
     THEN UNCHANGED <<connectionState, audioError, starts>>
     ELSE /\ Len(starts) < MaxStarts
          /\ connectionState' = "connecting"
          /\ audioError' = <<>>
          /\ \E suspended \in BOOLEAN :
               starts' = Append(starts,
                                [pc |-> IF suspended THEN "resume" ELSE "getUserMedia",
                                 context |-> IF suspended THEN "suspended" ELSE "running",
                                 stream |-> "none"])
  /\ UNCHANGED <<audioStateRef, dataArrayRef, isRunning, levels, audioFrames>>
  /\ UNCHANGED <<uniformsRef, varsGPU, varsSB, oscBase, varsGL, varsTextures>>

\* await context.resume() resolves: the analyser is created and getUserMedia
\* is called and awaited
resumeResolves ==
  /\ \E i \in 1..Len(starts) :
       /\ starts[i].pc = "resume"
       /\ starts' = [starts EXCEPT ![i].pc = "getUserMedia", ![i].context = "running"]
  /\ UNCHANGED <<audioStateRef, dataArrayRef, connectionState, isRunning, levels, audioError,
                 audioFrames, lastCall>>
  /\ UNCHANGED <<uniformsRef, varsGPU, varsSB, oscBase, varsGL, varsTextures>>

\* await getUserMedia resolves with a stream and start runs to its end: the
\* capture is stored in audioStateRef and the first frame is requested
getUserMediaResolves ==
  /\ \E i \in 1..Len(starts) :
       /\ starts[i].pc = "getUserMedia"
       /\ starts' = [starts EXCEPT ![i].pc = "done", ![i].stream = "live"]
       /\ audioStateRef' = <<i>>
  /\ dataArrayRef' = <<"Uint8Array">>
  /\ connectionState' = "connected"
  /\ isRunning' = TRUE
  /\ audioFrames' = requestAnimationFrameSB(audioFrames)
  /\ UNCHANGED <<levels, audioError, lastCall>>
  /\ UNCHANGED <<uniformsRef, varsGPU, varsSB, oscBase, varsGL, varsTextures>>

\* await getUserMedia rejects: the catch of start
getUserMediaRejects ==
  /\ \E i \in 1..Len(starts) :
       /\ starts[i].pc = "getUserMedia"
       /\ starts' = [starts EXCEPT ![i].pc = "failed"]
  /\ audioError' = <<"NotAllowedError">>
  /\ connectionState' = "error"
  /\ isRunning' = FALSE
  /\ UNCHANGED <<audioStateRef, dataArrayRef, levels, audioFrames, lastCall>>
  /\ UNCHANGED <<uniformsRef, varsGPU, varsSB, oscBase, varsGL, varsTextures>>

\* stop(): the frame is cancelled, the capture of audioStateRef is released
stop ==
  /\ lastCall' = "stop"
  /\ audioFrames' = cancelAnimationFrameSB(audioFrames)
  /\ starts' = IF audioStateRef # <<>>
               THEN [starts EXCEPT ![audioStateRef[1]].stream = "stopped",
                                   ![audioStateRef[1]].context = "closed"]
               ELSE starts
  /\ audioStateRef' = <<>>
  /\ dataArrayRef' = <<>>
  /\ connectionState' = "disconnected"
  /\ isRunning' = FALSE
  /\ levels' = "zero"
  /\ UNCHANGED audioError
  /\ UNCHANGED <<uniformsRef, varsGPU, varsSB, oscBase, varsGL, varsTextures>>

\* analyze run as a frame callback: without a capture it returns, else it
\* stores the levels and requests the next frame
analyze ==
  /\ audioFrames.current + audioFrames.stale > 0
  /\ IF audioStateRef = <<>> \/ dataArrayRef = <<>>
     THEN /\ audioFrames' = runFrame(audioFrames)
          /\ UNCHANGED levels
     ELSE /\ audioFrames' = requestAnimationFrameSB(runFrame(audioFrames))
          /\ levels' = "measured"
  /\ UNCHANGED <<audioStateRef, dataArrayRef, connectionState, isRunning, audioError, starts,
                 lastCall>>
  /\ UNCHANGED <<uniformsRef, varsGPU, varsSB, oscBase, varsGL, varsTextures>>
\* ------------------------------------------------------------------------
\* The texture manager (src/utils/textures.ts)
\* ------------------------------------------------------------------------

\* gl.getParameter(gl.MAX_TEXTURE_IMAGE_UNITS) of the context
MaxUnits == 2

\* number of source objects a caller hands over as textures
MaxSources == 2

\* the names of the texture uniforms of a shader: no more than texture units
TextureNamePool == <<"tex0", "tex1", "tex2", "tex3">>

TextureNames == {TextureNamePool[i] : i \in 1..MaxUnits}

\* a source object (an image element); two sources are the same object when
\* they have the same n
Image(id) == [t |-> "image", n |-> id, e |-> <<>>]

TextureSources == {Image(id) : id \in 1..MaxSources}

createTextureManager == [cache |-> <<>>, nextUnit |-> 0, maxUnits |-> MaxUnits]

InitTextures ==
  /\ textureManager = createTextureManager
  /\ textures = <<>>
  /\ textureUnits = [u \in 0..(MaxUnits - 1) |-> 0]
  /\ textureUniforms = <<>>
  /\ textureFrame = <<>>
  /\ texturePhase = "mounted"

\* manager.cache.get(name): <<>> for undefined, else <<the entry>>
cacheGet(manager, name) ==
  IF \E i \in 1..Len(manager.cache) : manager.cache[i].name = name
  THEN <<manager.cache[CHOOSE i \in 1..Len(manager.cache) : manager.cache[i].name = name]>>
  ELSE <<>>

\* manager.cache.set(name, entry)
cacheSet(manager, entry) ==
  IF \E i \in 1..Len(manager.cache) : manager.cache[i].name = entry.name
  THEN [manager EXCEPT
          !.cache[CHOOSE i \in 1..Len(manager.cache) : manager.cache[i].name = entry.name] = entry]
  ELSE [manager EXCEPT !.cache = Append(manager.cache, entry)]

\* gl.deleteTexture(texture)
deleteTexture(gl, texture) ==
  [gl EXCEPT !.textures[texture] = "deleted",
             !.units = [u \in DOMAIN gl.units |-> IF gl.units[u] = texture THEN 0 ELSE gl.units[u]]]

\* bindTextureUniform on gl = [textures, units] and the manager, for a source
\* that is no playing video: the context and the manager after the call
bindTextureUniform(gl, name, source, manager) ==
  LET found == cacheGet(manager, name)
      changed == found # <<>> /\ found[1].source # source
      deleted == IF changed THEN deleteTexture(gl, found[1].texture) ELSE gl
      entry == IF changed THEN <<>> ELSE found
  IN IF entry = <<>> THEN
       IF manager.nextUnit >= manager.maxUnits
       THEN [gl |-> deleted, manager |-> manager]
       ELSE LET texture == Len(deleted.textures) + 1
                made == [name |-> name, texture |-> texture, unit |-> manager.nextUnit,
                         source |-> source]
            IN [gl |-> [textures |-> Append(deleted.textures, "live"),
                        units |-> [deleted.units EXCEPT ![made.unit] = texture]],
                manager |-> cacheSet([manager EXCEPT !.nextUnit = manager.nextUnit + 1], made)]
     ELSE [gl |-> [deleted EXCEPT !.units[entry[1].unit] = entry[1].texture],
           manager |-> manager]

\* the calls of bindTextureUniform of one frame, one per texture uniform
RECURSIVE bindTextureUniforms(_, _)
bindTextureUniforms(acc, uniforms) ==
  IF uniforms = <<>> THEN acc
  ELSE bindTextureUniforms(
         bindTextureUniform(acc.gl, Head(uniforms).name, Head(uniforms).value, acc.manager),
         Tail(uniforms))

\* cleanupTextures
RECURSIVE deleteTextures(_, _)
deleteTextures(gl, cache) ==
  IF cache = <<>> THEN gl
  ELSE deleteTextures(deleteTexture(gl, Head(cache).texture), Tail(cache))

cleanupTextures(gl, manager) ==
  [gl |-> deleteTextures(gl, manager.cache),
   manager |-> [manager EXCEPT !.cache = <<>>, !.nextUnit = 0]]

\* the component renders again with new props: a texture uniform gets
\* another source object, or a texture uniform is added
SetTextureSource ==
  /\ texturePhase = "mounted"
  /\ \E name \in TextureNames, source \in TextureSources :
       /\ Lookup(textureUniforms, name) # source
       /\ textureUniforms' = Put(textureUniforms, name, source)
  /\ UNCHANGED <<textureManager, textures, textureUnits, textureFrame, texturePhase>>
  /\ UNCHANGED <<uniformsRef, varsGPU, varsSB, oscBase, varsGL, varsAudio>>

\* one frame of useWebGL: setUniforms binds every texture uniform of the props
RenderTextures ==
  /\ texturePhase = "mounted"
  /\ LET bound == bindTextureUniforms(
                    [gl |-> [textures |-> textures, units |-> textureUnits],
                     manager |-> textureManager], textureUniforms)
     IN /\ textures' = bound.gl.textures
        /\ textureUnits' = bound.gl.units
        /\ textureManager' = bound.manager
  /\ textureFrame' = <<textureUniforms>>
  /\ UNCHANGED <<textureUniforms, texturePhase>>
  /\ UNCHANGED <<uniformsRef, varsGPU, varsSB, oscBase, varsGL, varsAudio>>

\* the effect cleanup of useWebGL: cleanupWebGL calls cleanupTextures
UnmountTextures ==
  /\ texturePhase = "mounted"
  /\ texturePhase' = "unmounted"
  /\ LET cleaned == cleanupTextures([textures |-> textures, units |-> textureUnits],
                                    textureManager)
     IN /\ textures' = cleaned.gl.textures
        /\ textureUnits' = cleaned.gl.units
        /\ textureManager' = cleaned.manager
  /\ UNCHANGED <<textureUniforms, textureFrame>>
  /\ UNCHANGED <<uniformsRef, varsGPU, varsSB, oscBase, varsGL, varsAudio>>

\* ------------------------------------------------------------------------
\* Specifications
\* ------------------------------------------------------------------------

InitGPU ==
  /\ phase = "initializing"
  /\ stateRef = <<>>
  /\ layoutFrom = <<>>
  /\ frameUniforms = <<>>
  /\ allValues = <<>>
  /\ uniformData = Float32Array(0)
  /\ error = <<>>
  /\ device = "none"

InitSB ==
  /\ sbPhase = "initializing"
  /\ sbStateRef = <<>>
  /\ gpuBuffers = <<>>
  /\ allValuesRef = <<>>
  /\ uniformDataRef = Float32Array(0)
  /\ frameTick = 0
  /\ lastDraw = <<>>
  /\ sbError = <<>>
  /\ sbPendingFrames = [current |-> 0, stale |-> 0]
  /\ sbLastFrame = "none"
  /\ sbDevice = "none"

InitGL ==
  /\ glPhase = "idle"
  /\ glStateRef = <<>>
  /\ contextLostRef = FALSE
  /\ animationFrameRef = 0
  /\ elapsedTimeRef = 0
  /\ lastFrameTimeRef = 0
  /\ glFrameUniforms = <<>>
  /\ glErrors = 0
  /\ glContext = "ok"
  /\ glUniforms = <<>>
  /\ glPrograms = 0
  /\ glDraws = 0
  /\ pendingFrames = {}
  /\ rafCount = 0
  /\ clock = 0

\* a session of useWebGPU.ts whose props change between frames
Init ==
  /\ uniformsRef \in SessionMaps
  /\ storageBuffersRef = <<>>
  /\ InitGPU
  /\ InitSB
  /\ oscBase = 0
  /\ InitGL
  /\ InitAudio
  /\ InitTextures

Next ==
  \/ Initialize \/ InitializeThrows \/ SetUniforms \/ Render \/ Unmount
  \/ InitializeUnmounted \/ InitializeThrowsUnmounted

Spec == Init /\ [][Next]_vars

\* layout and packing of both hooks over every custom uniform map, props
\* left alone
InitLayout ==
  /\ \E n \in 0..MaxCustom :
       \E names \in [1..n -> Names], values \in [1..n -> UniformValues] :
         /\ AreDistinct(names)
         /\ uniformsRef = MapOf(names, values)
  /\ storageBuffersRef = <<>>
  /\ InitGPU
  /\ InitSB
  /\ oscBase = 0
  /\ InitGL
  /\ InitAudio
  /\ InitTextures

NextLayout == Initialize \/ InitializeThrows \/ Render \/ InitializeSB \/ InitializeSBThrows

SpecLayout == InitLayout /\ [][NextLayout]_vars

\* a session of part_006 whose storage data changes between frames
InitStorage ==
  /\ uniformsRef \in StorageUniformMaps
  /\ storageBuffersRef \in StorageMaps
  /\ InitGPU
  /\ InitSB
  /\ oscBase = 0
  /\ InitGL
  /\ InitAudio
  /\ InitTextures

NextStorage ==
  \/ InitializeSB \/ InitializeSBThrows \/ SetStorageBuffers \/ RenderSB \/ UnmountSB
  \/ InitializeSBUnmounted \/ InitializeSBThrowsUnmounted

SpecStorage == InitStorage /\ [][NextStorage]_vars

\* ------------------------------------------------------------------------
\* Properties of the computed layout
\* ------------------------------------------------------------------------

HasLayout == stateRef # <<>>

Fields == uniformLayout.fields

FieldIndices == 1..Len(Fields)

\* the end of the bytes of a field
FieldEnd(f) == f.offset + f.size

\* the layout of the state is the one computed from the custom uniforms m
LayoutOf(m) == HasLayout /\ layoutFrom = <<m>>

\* the fields of the layout of part_006
FieldsSB == sbState.uniformLayout.fields

\* C1: every scalar/vector field starts at a multiple of the alignment of its
\* type (f32 4, vec2f 8, vec3f and vec4f 16) and every array field at a
\* multiple of 16, in the layouts of both hooks
AlignmentInvariant ==
  /\ HasLayout =>
       \A i \in FieldIndices :
         IF Fields[i].isArray THEN Fields[i].offset % 16 = 0
         ELSE Fields[i].offset % getTypeAlignment(Fields[i].type) = 0
  /\ sbStateRef # <<>> =>
       \A i \in 1..Len(FieldsSB) :
         FieldsSB[i].offset % getTypeAlignment(FieldsSB[i].type) = 0

\* layouts of both hooks in which a vec2f had to be moved up to its
\* alignment (it follows a vec3f)
AlignmentWitness ==
  /\ HasLayout
  /\ \E i \in FieldIndices :
       /\ i > 1
       /\ Fields[i].offset > FieldEnd(Fields[i - 1])
       /\ ~Fields[i].isArray /\ Fields[i].type = "vec2f"
  /\ sbStateRef # <<>>
  /\ \E i \in 1..Len(FieldsSB) :
       /\ i > 1
       /\ FieldsSB[i].offset > FieldEnd(FieldsSB[i - 1])
       /\ FieldsSB[i].type = "vec2f"

\* C2: the byte ranges of two distinct fields never intersect
NoOverlap ==
  HasLayout =>
    \A i, j \in FieldIndices :
      i # j => \/ FieldEnd(Fields[i]) <= Fields[j].offset
               \/ FieldEnd(Fields[j]) <= Fields[i].offset

\* a layout with a custom vector, a synthesized count and an array
NoOverlapWitness ==
  /\ HasLayout
  /\ \E i, j, k \in FieldIndices :
       /\ i > Len(DEFAULT_UNIFORMS) /\ Fields[i].type = "vec3f"
       /\ Fields[j].name = "ripples_count" /\ Fields[j].type = "f32"
       /\ Fields[k].isArray /\ Fields[k].arrayLength > 1

\* C3: bufferSize is a multiple of 16 and covers every field
BufferSizeInvariant ==
  HasLayout =>
    /\ uniformLayout.bufferSize % 16 = 0
    /\ \A i \in FieldIndices : uniformLayout.bufferSize >= FieldEnd(Fields[i])

\* a layout whose last field ends off a 16 byte boundary, so that the size
\* was rounded up
BufferSizeWitness ==
  /\ HasLayout
  /\ Len(Fields) > Len(DEFAULT_UNIFORMS)
  /\ FieldEnd(Fields[Len(Fields)]) % 16 # 0
  /\ uniformLayout.bufferSize > FieldEnd(Fields[Len(Fields)])

\* the custom uniforms of the concrete scenario: {scale: 2.0, ripples: three 4-tuples}
ScenarioUniforms ==
  << [name |-> "scale", value |-> Num(2)],
     [name |-> "ripples", value |-> SampleArray(3)] >>

\* the names and offsets of the fields, in layout order
NamedOffsets == [i \in FieldIndices |-> <<Fields[i].name, Fields[i].offset>>]

\* C4 as stated: the scenario gives ripples_count@32 and scale@36
ScenarioLayoutAsClaimed ==
  LayoutOf(ScenarioUniforms) =>
    /\ NamedOffsets = << <<"iTime", 0>>, <<"iMouseLeftDown", 4>>, <<"iResolution", 8>>,
                         <<"iMouse", 16>>, <<"iMouseNormalized", 24>>,
                         <<"ripples_count", 32>>, <<"scale", 36>>, <<"ripples", 48>> >>
    /\ uniformLayout.bufferSize = 96

\* C4 amended: the sort is stable and the count is appended after the user's
\* scalars, so the scenario gives scale@32 and ripples_count@36
ScenarioLayout ==
  LayoutOf(ScenarioUniforms) =>
    /\ NamedOffsets = << <<"iTime", 0>>, <<"iMouseLeftDown", 4>>, <<"iResolution", 8>>,
                         <<"iMouse", 16>>, <<"iMouseNormalized", 24>>,
                         <<"scale", 32>>, <<"ripples_count", 36>>, <<"ripples", 48>> >>
    /\ uniformLayout.bufferSize = 96

ScenarioWitness == LayoutOf(ScenarioUniforms) /\ Len(Fields) = 8

\* C5: no two fields of a layout share a name, in the layouts of both hooks
UniqueFieldNames ==
  /\ HasLayout =>
       \A i, j \in FieldIndices : i # j => Fields[i].name # Fields[j].name
  /\ sbStateRef # <<>> =>
       \A i, j \in 1..Len(FieldsSB) : i # j => FieldsSB[i].name # FieldsSB[j].name

\* C6: every array uniform X has an f32 field X_count, and that field comes
\* before every array field
CountSynthesis ==
  HasLayout =>
    \A e \in 1..Len(layoutFrom[1]) :
      isVec4Array(layoutFrom[1][e].value) =>
        \E i \in FieldIndices :
          /\ Fields[i].name = layoutFrom[1][e].name \o "_count"
          /\ Fields[i].type = "f32"
          /\ ~Fields[i].isArray
          /\ \A j \in FieldIndices : Fields[j].isArray => i < j

\* a layout computed from two array uniforms
CountSynthesisWitness ==
  /\ HasLayout
  /\ Cardinality({e \in 1..Len(layoutFrom[1]) : isVec4Array(layoutFrom[1][e].value)}) >= 2
  /\ Cardinality({i \in FieldIndices : Fields[i].isArray}) >= 2

\* C7: an array uniform of N elements gets an array field of N elements,
\* N * 16 bytes and element stride 16
ArrayStride ==
  HasLayout =>
    /\ \A i \in FieldIndices :
         Fields[i].isArray =>
           /\ Fields[i].size = Fields[i].arrayLength * 16
           /\ Fields[i].elementStride = 16
    /\ \A e \in 1..Len(layoutFrom[1]) :
         isVec4Array(layoutFrom[1][e].value) =>
           \E i \in FieldIndices :
             /\ Fields[i].isArray
             /\ Fields[i].name = layoutFrom[1][e].name
             /\ Fields[i].arrayLength = Length(layoutFrom[1][e].value)

\* a layout with an array field of more than one element
ArrayStrideWitness ==
  /\ HasLayout
  /\ \E i \in FieldIndices : Fields[i].isArray /\ Fields[i].arrayLength >= 2 /\ Fields[i].size >= 32

\* ------------------------------------------------------------------------
\* Reading the packed buffer back
\* ------------------------------------------------------------------------

\* the k floats at float index base, as a numeric tuple
ReadVec(floatData, base, k) == Arr([c \in 1..k |-> Num(floatData[base + c - 1])])

\* the value a field holds in the buffer: 1 float, N contiguous floats, or
\* 4 floats per element at a stride of 4 floats
ReadField(f, floatData) ==
  IF f.isArray
  THEN Arr([e \in 1..f.arrayLength |-> ReadVec(floatData, f.offset \div 4 + 4 * (e - 1), 4)])
  ELSE IF f.type = "f32" THEN Num(floatData[f.offset \div 4])
  ELSE ReadVec(floatData, f.offset \div 4, getTypeSize(f.type) \div 4)

\* a frame was packed by the layout computed from the uniforms it packed
PackedOwnLayout == HasLayout /\ frameUniforms # <<>> /\ frameUniforms = layoutFrom

\* C8: every field named by the custom uniforms reads back as the value the
\* custom uniforms give it
RoundTrip ==
  PackedOwnLayout =>
    \A i \in FieldIndices :
      Lookup(frameUniforms[1], Fields[i].name) # Undefined =>
        ReadField(Fields[i], uniformData) = Lookup(frameUniforms[1], Fields[i].name)

\* ------------------------------------------------------------------------
\* The layout across the frames of a session
\* ------------------------------------------------------------------------

\* the names, types and array lengths of a custom uniform map
Signature(m) == {inferredEntries(m)[i] : i \in 1..Len(m)}

\* a frame has been packed in this session
FramePacked == HasLayout /\ frameUniforms # <<>>

StorageBuffers == sbState.storageBuffers

\* the data the next frame finds for entry i
FrameData(i) == Lookup(storageBuffersRef, StorageBuffers[i].name)

\* the next frame finds for entry i data whose required length lies in
\* [ceil(C / 2), C], C being the capacity of the entry
InDeadZone(i) ==
  /\ FrameData(i) # Undefined
  /\ Ceil(StorageBuffers[i].currentLength, 2) <= Max(Length(FrameData(i)), 1)
  /\ Max(Length(FrameData(i)), 1) <= StorageBuffers[i].currentLength

MaxFrameLen == 5

\* the storage data of the props: one buffer, of n elements
DataOfLength(n) == <<[name |-> StorageNamePool[1], value |-> StorageData(n)]>>

FrameLengths == 0..MaxFrameLen

\* the component renders again with new props:
\* storageBuffersRef.current = options.storageBuffers, the data of another length
SetStorageLength ==
  /\ sbPhase \notin {"pending", "unmounted"}
  /\ \E n \in FrameLengths :
       /\ DataOfLength(n) # storageBuffersRef
       /\ storageBuffersRef' = DataOfLength(n)
  /\ UNCHANGED <<varsGL, oscBase, varsAudio, varsTextures, sbError, uniformsRef, varsGPU, sbPhase, sbStateRef, gpuBuffers, allValuesRef,
                 uniformDataRef, frameTick, lastDraw, sbPendingFrames, sbLastFrame, sbDevice>>

InitCapacity ==
  /\ uniformsRef = <<[name |-> "scale", value |-> Num(2)]>>
  /\ storageBuffersRef \in {DataOfLength(n) : n \in FrameLengths}
  /\ InitGPU
  /\ InitSB
  /\ oscBase = 0
  /\ InitGL
  /\ InitAudio
  /\ InitTextures

NextCapacity ==
  InitializeSB \/ SetStorageLength \/ RenderSB \/ UnmountSB \/ InitializeSBUnmounted

SpecCapacity == InitCapacity /\ [][NextCapacity]_vars

\* ------------------------------------------------------------------------
\* The capacity policy of the storage buffers
\* ------------------------------------------------------------------------

\* the step is a frame
IsFrame == sbStateRef # <<>> /\ frameTick' # frameTick

\* the frame replaced the buffer of entry i and destroyed the old one
Reallocated(i) ==
  /\ sbStateRef'[1].storageBuffers[i].buffer # StorageBuffers[i].buffer
  /\ gpuBuffers'[StorageBuffers[i].buffer].destroyed
  /\ ~gpuBuffers'[sbStateRef'[1].storageBuffers[i].buffer].destroyed

\* the buffer that the entry of a session with one storage buffer had before
\* its current one: buffers are numbered in the order of their creation
PreviousBuffer == gpuBuffers[StorageBuffers[1].buffer - 1]

\* a frame of a session with one storage buffer has replaced its buffer
HasReallocated ==
  /\ sbStateRef # <<>>
  /\ lastDraw # <<>>
  /\ Len(StorageBuffers) = 1
  /\ StorageBuffers[1].buffer > 2
  /\ PreviousBuffer.destroyed

\* C11 as claimed: a frame that supplies floor(C / 2) - 1 elements (when that
\* is not negative) to an entry of capacity C reallocates its buffer
ShrinkBelowHalfAsClaimed ==
  [][IsFrame =>
       \A i \in 1..Len(StorageBuffers) :
         (/\ FrameData(i) # Undefined
          /\ StorageBuffers[i].currentLength \div 2 - 1 >= 0
          /\ Length(FrameData(i)) = StorageBuffers[i].currentLength \div 2 - 1)
           => Reallocated(i)]_vars

\* C11: a frame that supplies floor(C / 2) - 1 elements to an entry of
\* capacity C >= 3 reallocates its buffer (at C = 2 the frame supplies 0
\* elements, requires max(0, 1) = 1, which is not below C / 2)
ShrinkBelowHalf ==
  [][IsFrame =>
       \A i \in 1..Len(StorageBuffers) :
         (/\ FrameData(i) # Undefined
          /\ StorageBuffers[i].currentLength >= 3
          /\ Length(FrameData(i)) = StorageBuffers[i].currentLength \div 2 - 1)
           => Reallocated(i)]_vars

\* a buffer of capacity C >= 4 was replaced by a frame that supplied
\* floor(C / 2) - 1 >= 1 elements
ShrinkBelowHalfWitness ==
  /\ HasReallocated
  /\ PreviousBuffer.size >= 4 * 16
  /\ StorageBuffers[1].dataLength = (PreviousBuffer.size \div 16) \div 2 - 1

\* C12: a frame that supplies C + 1 elements to an entry of capacity C
\* reallocates its buffer
GrowAboveCapacity ==
  [][IsFrame =>
       \A i \in 1..Len(StorageBuffers) :
         (/\ FrameData(i) # Undefined
          /\ Length(FrameData(i)) = StorageBuffers[i].currentLength + 1)
           => Reallocated(i)]_vars

\* a buffer of capacity C was replaced by a frame that supplied C + 1 elements
GrowAboveCapacityWitness ==
  /\ HasReallocated
  /\ StorageBuffers[1].dataLength = PreviousBuffer.size \div 16 + 1

\* C13: a frame that reallocates the buffer of an entry for R supplied
\* elements leaves the entry with capacity ceil(max(R, 1) * 1.5), which is
\* at least R, and with a buffer of that many elements of 16 bytes
ReallocCapacity ==
  [][IsFrame =>
       \A i \in 1..Len(StorageBuffers) :
         sbStateRef'[1].storageBuffers[i].buffer # StorageBuffers[i].buffer =>
           /\ sbStateRef'[1].storageBuffers[i].currentLength
                = Ceil(3 * Max(Length(FrameData(i)), 1), 2)
           /\ sbStateRef'[1].storageBuffers[i].currentLength >= Length(FrameData(i))
           /\ gpuBuffers'[sbStateRef'[1].storageBuffers[i].buffer].size
                = 16 * sbStateRef'[1].storageBuffers[i].currentLength]_vars

\* capacity 8 with 3 elements supplied has become capacity 5
ReallocCapacityWitness ==
  /\ HasReallocated
  /\ PreviousBuffer.size = 8 * 16
  /\ StorageBuffers[1].dataLength = 3
  /\ StorageBuffers[1].currentLength = 5

\* ------------------------------------------------------------------------
\* The bind group and the contents of the storage buffers
\* ------------------------------------------------------------------------

\* the entries of the storage buffers after the step
StorageBuffersAfter == sbStateRef'[1].storageBuffers

\* C14: the bind group a frame draws with is the one of the state after the
\* frame and holds, in slot 0, the uniform buffer and, for every storage
\* entry, the buffer the entry has after the frame, which is not destroyed;
\* it is a new bind group when the frame reallocated an entry
DrawBindsCurrentBuffers ==
  [][IsFrame =>
       /\ lastDraw' = <<sbStateRef'[1].uniformBindGroup>>
       /\ Len(lastDraw'[1].entries) = Len(StorageBuffersAfter) + 1
       /\ lastDraw'[1].entries[1].buffer = sbState.uniformBuffer
       /\ ~gpuBuffers'[sbState.uniformBuffer].destroyed
       /\ \A i \in 1..Len(StorageBuffersAfter) :
            /\ lastDraw'[1].entries[i + 1].binding = StorageBuffersAfter[i].binding
            /\ lastDraw'[1].entries[i + 1].buffer = StorageBuffersAfter[i].buffer
            /\ ~gpuBuffers'[StorageBuffersAfter[i].buffer].destroyed
       /\ (\E i \in 1..Len(StorageBuffers) : Reallocated(i)) =>
            lastDraw'[1].id # sbState.uniformBindGroup.id]_vars

\* a frame of a session with two storage buffers drew with a rebuilt bind
\* group: one entry has a new buffer, the other the buffer of initialization
DrawBindsCurrentBuffersWitness ==
  /\ sbStateRef # <<>>
  /\ sbPhase = "running"
  /\ lastDraw # <<>>
  /\ lastDraw[1].id > 1
  /\ Len(StorageBuffers) = 2
  /\ StorageBuffers[1].buffer = 2
  /\ StorageBuffers[2].buffer > 3
  /\ lastDraw[1].entries[3].buffer = StorageBuffers[2].buffer

\* the floats of element k (0-based) of a GPU buffer
ElementOf(buffer, k) == [c \in 1..4 |-> buffer.data[4 * k + c - 1]]

\* the floats of element k (0-based) of a dataset
SuppliedElement(data, k) == [c \in 1..4 |-> At(At(data, k), c - 1).n]

\* C15: after a frame in which an entry receives data of length n, elements
\* 0..n-1 of the buffer the entry has after the frame equal the data,
\* whether or not the frame reallocated the buffer
FrameUploadsAllData ==
  [][IsFrame =>
       \A i \in 1..Len(StorageBuffers) :
         FrameData(i) # Undefined =>
           /\ StorageBuffersAfter[i].dataLength = Length(FrameData(i))
           /\ \A k \in 0..(Length(FrameData(i)) - 1) :
                ElementOf(gpuBuffers'[StorageBuffersAfter[i].buffer], k)
                  = SuppliedElement(FrameData(i), k)]_vars

\* a frame reallocated the buffer of an entry for at least 2 elements and
\* the new buffer holds them
FrameUploadsAllDataWitness ==
  /\ sbStateRef # <<>>
  /\ sbPhase = "running"
  /\ lastDraw # <<>>
  /\ \E i \in 1..Len(StorageBuffers) :
       /\ StorageBuffers[i].buffer > Len(StorageBuffers) + 1
       /\ StorageBuffers[i].dataLength >= 2
       /\ FrameData(i) # Undefined
       /\ Length(FrameData(i)) = StorageBuffers[i].dataLength
       /\ \A k \in 0..(StorageBuffers[i].dataLength - 1) :
            ElementOf(gpuBuffers[StorageBuffers[i].buffer], k) = SuppliedElement(FrameData(i), k)

\* C16: every storage entry has a capacity of at least 1 element and a buffer
\* of at least 16 bytes, after creation, where the capacity is
\* max(1, initial length), and after every frame, frames that supply 0
\* elements included
CapacityAtLeastOne ==
  [][sbStateRef' # <<>> =>
       \A i \in 1..Len(StorageBuffersAfter) :
         /\ StorageBuffersAfter[i].currentLength >= 1
         /\ gpuBuffers'[StorageBuffersAfter[i].buffer].size >= 16
         /\ sbStateRef = <<>> =>
              StorageBuffersAfter[i].currentLength
                = Max(1, Length(Lookup(storageBuffersRef, StorageBuffersAfter[i].name)))]_vars

\* a frame that was supplied 0 elements has reallocated the buffer of an entry
CapacityAtLeastOneWitness ==
  /\ HasReallocated
  /\ StorageBuffers[1].dataLength = 0
  /\ StorageBuffers[1].currentLength >= 1

\* C17: the live element count of every storage entry is at most its
\* capacity, after creation and after every frame
LiveWithinCapacity ==
  sbStateRef # <<>> =>
    \A i \in 1..Len(StorageBuffers) :
      StorageBuffers[i].dataLength <= StorageBuffers[i].currentLength

\* a frame has grown the buffer of an entry: more live elements than the
\* capacity of the buffer it replaced
LiveWithinCapacityWitness ==
  /\ HasReallocated
  /\ StorageBuffers[1].dataLength > PreviousBuffer.size \div 16
  /\ StorageBuffers[1].dataLength < StorageBuffers[1].currentLength

\* ------------------------------------------------------------------------
\* A session of part_006 whose dataset alternates between n and n + 1
\* ------------------------------------------------------------------------

\* the component renders again with new props: the dataset gets the other
\* of the lengths oscBase and oscBase + 1
Oscillate ==
  /\ sbPhase = "running"
  /\ oscBase >= 1
  /\ \E n \in {oscBase, oscBase + 1} :
       /\ DataOfLength(n) # storageBuffersRef
       /\ storageBuffersRef' = DataOfLength(n)
  /\ UNCHANGED <<varsGL, oscBase, varsAudio, varsTextures, sbError, uniformsRef, varsGPU, sbPhase, sbStateRef, gpuBuffers, allValuesRef,
                 uniformDataRef, frameTick, lastDraw, sbPendingFrames, sbLastFrame, sbDevice>>

\* the buffer is created for a dataset of any length, so with any capacity
InitOscillation ==
  /\ uniformsRef = <<[name |-> "scale", value |-> Num(2)]>>
  /\ storageBuffersRef \in {DataOfLength(n) : n \in FrameLengths}
  /\ InitGPU
  /\ InitSB
  /\ oscBase \in 1..(MaxFrameLen - 1)
  /\ InitGL
  /\ InitAudio
  /\ InitTextures

NextOscillation == InitializeSB \/ Oscillate \/ RenderSB

SpecOscillation == InitOscillation /\ [][NextOscillation]_vars

\* the buffers a session with one storage buffer has after initialization:
\* the uniform buffer and the storage buffer
InitialBuffers == 2

\* C18: while the dataset alternates between n and n + 1, from any capacity,
\* the frames reallocate the buffer at most twice in all; and a frame that
\* supplies as many elements as the frame before it, the frame that caused a
\* reallocation included, keeps the buffer
NoThrashing ==
  [][/\ sbStateRef' # <<>> => Len(gpuBuffers') - InitialBuffers <= 2
     /\ IsFrame =>
          \A i \in 1..Len(StorageBuffers) :
            (FrameData(i) # Undefined /\ Length(FrameData(i)) = StorageBuffers[i].dataLength)
              => /\ StorageBuffersAfter[i].buffer = StorageBuffers[i].buffer
                 /\ StorageBuffersAfter[i].currentLength = StorageBuffers[i].currentLength]_vars

\* the alternating dataset has made the frames reallocate twice, the second
\* time for n elements
NoThrashingWitness ==
  /\ HasReallocated
  /\ oscBase >= 1
  /\ Len(gpuBuffers) = InitialBuffers + 2
  /\ StorageBuffers[1].dataLength = oscBase
  /\ Length(FrameData(1)) = oscBase + 1

\* ------------------------------------------------------------------------
\* Classification of the shapes of uniform values (useWebGPU.ts)
\* ------------------------------------------------------------------------

\* the array [1, ..., k] of numbers
NumericArray(k) == Vec([i \in 1..k |-> i])

\* an array of n arrays of k numbers each
TupleArray(k, n) == Arr([i \in 1..n |-> NumericArray(k)])

\* the shapes a caller may hand over: a number, arrays of 0 to
\* MaxArrayLen + 2 numbers, arrays of 2-, 3- and 4-tuples, and an array
\* whose first element is a 4-tuple and whose second is a 2-tuple
Shapes ==
  {Num(2)}
    \cup {NumericArray(k) : k \in 0..(MaxArrayLen + 2)}
    \cup {TupleArray(k, n) : k \in 2..4, n \in 1..(MaxArrayLen + 1)}
    \cup {Arr(<<NumericArray(4), NumericArray(2)>>)}

\* one custom uniform of any shape under any name, props left alone
InitShapes ==
  /\ \E nm \in Names, v \in Shapes : uniformsRef = <<[name |-> nm, value |-> v]>>
  /\ storageBuffersRef = <<>>
  /\ InitGPU
  /\ InitSB
  /\ oscBase = 0
  /\ InitGL
  /\ InitAudio
  /\ InitTextures

NextShapes == Initialize \/ InitializeThrows \/ Render

SpecShapes == InitShapes /\ [][NextShapes]_vars

\* an array of exactly k numbers
IsNumericArray(v, k) ==
  v.t = "array" /\ Len(v.e) = k /\ \A i \in 1..k : v.e[i].t = "number"

\* a non-empty array whose first element is an array of 4 elements
IsTupleArray(v) ==
  v.t = "array" /\ Len(v.e) > 0 /\ v.e[1].t = "array" /\ Len(v.e[1].e) = 4

\* the WGSL type of a shape, "throw" for a shape that is none of the
\* supported ones
ClaimedType(v) ==
  IF v.t = "number" THEN "f32"
  ELSE IF IsNumericArray(v, 2) THEN "vec2f"
  ELSE IF IsNumericArray(v, 3) THEN "vec3f"
  ELSE IF IsNumericArray(v, 4) THEN "vec4f"
  ELSE IF IsTupleArray(v) THEN "array<vec4f, " \o ToString(Len(v.e)) \o ">"
  ELSE "throw"

\* the message of the Error inferWgslType throws for an array
UnsupportedMessage == <<"Unsupported uniform value type: ", "object">>

\* C19: initialization fails exactly for the shapes that are neither a
\* number, nor 2, 3 or 4 numbers, nor an array that starts with a 4-tuple;
\* for the others the layout has a field of the custom uniform's name with
\* the type of the shape: f32, vec2f, vec3f, vec4f, or array<vec4f, length>
\* with isArray set and the length of the value
ShapesClassified ==
  /\ phase = "failed" =>
       /\ ClaimedType(uniformsRef[1].value) = "throw"
       /\ error = UnsupportedMessage
  /\ phase = "running" =>
       /\ HasLayout
       /\ ClaimedType(uniformsRef[1].value) # "throw"
       /\ \E i \in FieldIndices :
            /\ Fields[i].name = uniformsRef[1].name
            /\ Fields[i].type = ClaimedType(uniformsRef[1].value)
            /\ Fields[i].isArray = IsTupleArray(uniformsRef[1].value)
            /\ Fields[i].isArray => Fields[i].arrayLength = Len(uniformsRef[1].value.e)

\* four 4-tuples have become an array of length 4, not a vec4f
ShapesClassifiedWitness ==
  /\ phase = "running"
  /\ HasLayout
  /\ uniformsRef = <<[name |-> "ripples", value |-> TupleArray(4, 4)]>>
  /\ \E i \in FieldIndices :
       /\ Fields[i].name = "ripples"
       /\ Fields[i].type = "array<vec4f, 4>"
       /\ Fields[i].arrayLength = 4

\* some custom uniform of the map has a shape that is not supported
HasUnclassifiable(m) == \E i \in 1..Len(m) : ClaimedType(m[i].value) = "throw"

\* C20: when a custom uniform has an unclassifiable shape, initialization
\* publishes no state, hence no layout, not a partial one either, no frame
\* is packed or drawn, and once initialization has run the error has
\* reached onError
LayoutAllOrNothing ==
  HasUnclassifiable(uniformsRef) =>
    /\ stateRef = <<>>
    /\ layoutFrom = <<>>
    /\ frameUniforms = <<>>
    /\ allValues = <<>>
    /\ uniformData = Float32Array(0)
    /\ phase \in {"initializing", "failed"}
    /\ phase = "failed" => error = UnsupportedMessage

\* initialization has failed for a map whose first uniform is supported and
\* whose second is not
LayoutAllOrNothingWitness ==
  /\ phase = "failed"
  /\ error = UnsupportedMessage
  /\ stateRef = <<>>
  /\ Len(uniformsRef) = 2
  /\ ClaimedType(uniformsRef[1].value) = "vec3f"
  /\ ClaimedType(uniformsRef[2].value) = "throw"

\* ------------------------------------------------------------------------
\* The error of a value that cannot be classified
\* ------------------------------------------------------------------------

\* the message has the text of name among its parts
Mentions(message, name) == \E k \in DOMAIN message : message[k] = name

\* C21: when initialization fails because a custom uniform cannot be
\* classified, the message handed to onError names a custom uniform whose
\* value cannot be classified.
ErrorNamesField ==
  phase = "failed" =>
    \E i \in 1..Len(uniformsRef) :
      /\ inferWgslType(uniformsRef[i].value).baseType = "throw"
      /\ Mentions(error, uniformsRef[i].name)

\* ------------------------------------------------------------------------
\* Packing by a layout of two custom fields while the props change
\* ------------------------------------------------------------------------

\* the numbers and numeric tuples inferWgslType accepts
PlainValues == {Num(2), Vec(<<5, 6>>), Vec(<<5, 6, 7>>), Vec(<<5, 6, 7, 8>>)}

\* the vec4 arrays inferWgslType accepts
ArrayValues == {SampleArray(n) : n \in 1..MaxArrayLen}

\* a session of useWebGPU.ts that starts with the custom uniforms ripples
\* and scale, both numbers or tuples or both vec4 arrays, and whose props
\* change between frames
InitPack ==
  /\ \E values \in (PlainValues \X PlainValues) \cup (ArrayValues \X ArrayValues) :
       uniformsRef = MapOf(<<"ripples", "scale">>, values)
  /\ storageBuffersRef = <<>>
  /\ InitGPU
  /\ InitSB
  /\ oscBase = 0
  /\ InitGL
  /\ InitAudio
  /\ InitTextures

NextPack == Initialize \/ SetUniforms \/ Render

SpecPack == InitPack /\ [][NextPack]_vars

\* the float indices of the region of a field
Region(f) == (f.offset \div 4)..((f.offset + f.size) \div 4 - 1)

\* what the frame packs when the field named name has no value
PackedWithout(name) ==
  packFields(Fields, without(allValues, name), Float32Array(uniformLayout.bufferSize \div 4))

\* C22: after a frame, the region of every field of the layout whose name
\* has no value in the value map of the frame is as it was before packing
\* (the zeros of the new Float32Array), and without an entry of the value
\* map that matches no field the frame packs the same floats.
AbsentFieldsUntouched ==
  FramePacked =>
    /\ \A i \in FieldIndices :
         Lookup(allValues, Fields[i].name) = Undefined =>
           \A k \in Region(Fields[i]) : uniformData[k] = 0
    /\ \A e \in 1..Len(allValues) :
         (\A i \in FieldIndices : Fields[i].name # allValues[e].name) =>
           uniformData = PackedWithout(allValues[e].name)

\* the smaller of two numbers
Min(a, b) == IF a < b THEN a ELSE b

\* the floats of the first n elements of an array field
ElementFloats(f, n) == (f.offset \div 4)..(f.offset \div 4 + 4 * n - 1)

\* C23: a frame that packs a vec4 array of n elements into an array field
\* of layout length L stores element e, for e < min(n, L), at the four
\* floats from offset / 4 + 4 * e on, and stores nothing else: the rest of
\* the field and every float at or beyond offset / 4 + 4 * L is what the
\* frame packs without that value.
ArrayPackClamped ==
  FramePacked =>
    \A i \in FieldIndices :
      LET f == Fields[i]
          value == Lookup(allValues, f.name)
          written == Min(Length(value), f.arrayLength)
      IN (f.isArray /\ value # Undefined /\ isVec4Array(value)) =>
           /\ \A e \in 0..(written - 1) : \A c \in 0..3 :
                uniformData[f.offset \div 4 + 4 * e + c] = At(At(value, e), c).n
           /\ \A k \in DOMAIN uniformData \ ElementFloats(f, written) :
                uniformData[k] = PackedWithout(f.name)[k]

\* a frame packed an array longer than its field, and a field without a
\* value lies behind that field
ArrayPackClampedWitness ==
  /\ FramePacked
  /\ \E i, j \in FieldIndices :
       /\ Fields[i].isArray
       /\ isVec4Array(Lookup(allValues, Fields[i].name))
       /\ Length(Lookup(allValues, Fields[i].name)) > Fields[i].arrayLength
       /\ Fields[j].offset = Fields[i].offset + Fields[i].size
       /\ Lookup(allValues, Fields[j].name) = Undefined
       /\ \A k \in Region(Fields[j]) : uniformData[k] = 0

\* ------------------------------------------------------------------------
\* The order of the fields of a layout
\* ------------------------------------------------------------------------

\* the fields behind the five default fields
CustomFields == SubSeq(Fields, 6, Len(Fields))

\* C24: every layout starts with the five default fields iTime,
\* iMouseLeftDown, iResolution, iMouse and iMouseNormalized at the offsets
\* 0, 4, 8, 16 and 24, whatever the custom uniforms, and every custom field
\* is at an offset of at least 32.
DefaultsFirst ==
  HasLayout =>
    /\ Len(Fields) >= 5
    /\ [i \in 1..5 |-> <<Fields[i].name, Fields[i].offset>>]
         = << <<"iTime", 0>>, <<"iMouseLeftDown", 4>>, <<"iResolution", 8>>,
              <<"iMouse", 16>>, <<"iMouseNormalized", 24>> >>
    /\ \A i \in 1..Len(CustomFields) : CustomFields[i].offset >= 32

\* a layout of two custom uniforms, one of them named as a default uniform
DefaultsFirstWitness ==
  /\ HasLayout
  /\ Len(layoutFrom[1]) = 2
  /\ \E i \in 1..2 : layoutFrom[1][i].name = "iTime"
  /\ Fields[1].name = "iTime" /\ Fields[1].offset = 0
  /\ CustomFields[1].offset = 32

\* name and type of the elements of a sequence of fields
NamedTypes(fields) == [i \in 1..Len(fields) |-> <<fields[i].name, fields[i].type>>]

\* the custom fields that are not arrays
ScalarFields == SelectSeq(CustomFields, LAMBDA f : ~f.isArray)

\* the scalars and vectors in the order they are given: those of the map in
\* the order of the map, then one <name>_count per array in the order of
\* the map
ScalarInputs(m) ==
  LET plain == SelectSeq(m, LAMBDA e : ~inferWgslType(e.value).isArray)
      arrays == SelectSeq(m, LAMBDA e : inferWgslType(e.value).isArray)
  IN [i \in 1..Len(plain) |-> <<plain[i].name, inferWgslType(plain[i].value).baseType>>]
       \o [i \in 1..Len(arrays) |-> <<arrays[i].name \o "_count", "f32">>]

\* the elements of a sequence of <<name, type>> whose type has alignment a
OfAlignment(namedTypes, a) == SelectSeq(namedTypes, LAMBDA x : getTypeAlignment(x[2]) = a)

\* C25: the custom scalar and vector fields, the <name>_count fields among
\* them, are in an order of non-increasing alignment, fields of equal
\* alignment in the order they are given (those of the map in the order of
\* the map, then the <name>_count fields), and every array field is behind
\* every scalar and vector field.
CustomFieldOrder ==
  HasLayout =>
    /\ \A i, j \in 1..Len(ScalarFields) :
         i < j => getTypeAlignment(ScalarFields[i].type) >= getTypeAlignment(ScalarFields[j].type)
    /\ \A a \in {4, 8, 16} :
         OfAlignment(NamedTypes(ScalarFields), a) = OfAlignment(ScalarInputs(layoutFrom[1]), a)
    /\ \A i, j \in 1..Len(CustomFields) :
         (i < j /\ CustomFields[i].isArray) => CustomFields[j].isArray

\* the layout of {ripples: a vec4 array, scale: a vec2}: scale of alignment
\* 8, then ripples_count of alignment 4, then the array
CustomFieldOrderWitness ==
  /\ HasLayout
  /\ Len(layoutFrom[1]) = 2
  /\ layoutFrom[1][1].name = "ripples" /\ isVec4Array(layoutFrom[1][1].value)
  /\ layoutFrom[1][2].name = "scale" /\ isVec2(layoutFrom[1][2].value)
  /\ NamedTypes(ScalarFields) = << <<"scale", "vec2f">>, <<"ripples_count", "f32">> >>
  /\ Len(CustomFields) = 3
  /\ CustomFields[3].name = "ripples" /\ CustomFields[3].isArray

\* ------------------------------------------------------------------------
\* The life of the GPU buffers of a session of part_006
\* ------------------------------------------------------------------------

\* the buffers a bind group binds are alive among the buffers given
BindsLiveBuffers(bindGroup, buffers) ==
  \A k \in 1..Len(bindGroup.entries) : ~buffers[bindGroup.entries[k].buffer].destroyed

\* C26: no buffer is destroyed twice or written after it was destroyed,
\* the bind group of the state and the bind group a frame draws with bind
\* only buffers that are not destroyed, and once the session has ended
\* every buffer it created (the uniform buffer, the storage buffers made at
\* initialization and those made by a resize) has been destroyed exactly
\* once.
BuffersDestroyedOnce ==
  [][ /\ \A b \in 1..Len(gpuBuffers') :
           gpuBuffers'[b].destroys <= 1 /\ ~gpuBuffers'[b].misused
      /\ sbStateRef' # <<>> => BindsLiveBuffers(sbStateRef'[1].uniformBindGroup, gpuBuffers')
      /\ IsFrame => BindsLiveBuffers(lastDraw'[1], gpuBuffers')
      /\ sbPhase' = "unmounted" =>
           \A b \in 1..Len(gpuBuffers') : gpuBuffers'[b].destroys = 1 ]_vars

\* a session that drew frames, resized its storage buffer and was then
\* unmounted: uniform buffer, first and second storage buffer are destroyed
BuffersDestroyedOnceWitness ==
  /\ sbPhase = "unmounted"
  /\ lastDraw # <<>>
  /\ Len(gpuBuffers) >= 3
  /\ \A b \in 1..Len(gpuBuffers) : gpuBuffers[b].destroyed

\* ------------------------------------------------------------------------
\* Sessions of the WebGL renderer
\* ------------------------------------------------------------------------

\* a session of useWebGL whose context is lost and restored
InitContext ==
  /\ uniformsRef = <<[name |-> "points", value |-> PointArray(MaxArrayLen)]>>
  /\ storageBuffersRef = <<>>
  /\ InitGPU
  /\ InitSB
  /\ oscBase = 0
  /\ InitGL
  /\ InitAudio
  /\ InitTextures

NextContext == MountGL \/ RenderGL \/ handleContextLost \/ handleContextRestored \/ UnmountGL

SpecContext == InitContext /\ [][NextContext]_vars

\* a session of useWebGL whose props change between frames
InitDeclarations ==
  /\ uniformsRef \in GLMaps
  /\ storageBuffersRef = <<>>
  /\ InitGPU
  /\ InitSB
  /\ oscBase = 0
  /\ InitGL
  /\ InitAudio
  /\ InitTextures

NextDeclarations == MountGL \/ SetUniformsGL \/ RenderGL

SpecDeclarations == InitDeclarations /\ [][NextDeclarations]_vars

\* ------------------------------------------------------------------------
\* The declarations and the counts of array uniforms (WebGL)
\* ------------------------------------------------------------------------

\* the GLSL type of the elements of an array value
ElementType(value) ==
  IF At(value, 0).t = "number" THEN "float"
  ELSE "vec" \o ToString(Length(At(value, 0)))

\* the declarations hold `uniform <type> <name>[<size>];` and, as the next
\* line, `uniform int <name>_count;`
DeclaresArray(declarations, name, value, size) ==
  \E k \in 1..(Len(declarations) - 1) :
    /\ declarations[k]
         = <<"uniform ", ElementType(value), " ", name, "[", ToString(size) \o "]", ";">>
    /\ declarations[k + 1] = <<"uniform int ", name, "_count;">>

\* the step is the effect calling initialize, and initializeWebGL returned
IsMount == glPhase = "idle" /\ glStateRef' # <<>>

\* the step is a frame that draws
IsDraw == glDraws' = glDraws + 1

\* a frame sets <name>_count, where the program has that uniform, to the
\* number of elements of the array the frame supplies under <name>
CountsSet ==
  IsDraw =>
    \A i \in 1..Len(uniformsRef) :
      LET countName == uniformsRef[i].name \o "_count"
      IN (/\ isArrayUniform(uniformsRef[i].value)
          /\ getUniformLocation(glStateRef'[1].program, countName) # Null)
           => Lookup(glUniforms', countName) = Num(Length(uniformsRef[i].value))

IsRestore == glContext = "lost" /\ glContext' = "ok"

\* from webglcontextlost until webglcontextrestored no draw call is issued
\* and no frame callback is pending, and never are two callbacks pending
QuietWhileLost ==
  /\ glContext' = "lost" => (pendingFrames' = {} /\ glDraws' = glDraws)
  /\ Cardinality(pendingFrames') <= 1

\* a new program, the elapsed time at 0 and one frame callback pending
Reinitialized ==
  /\ glPrograms' = glPrograms + 1
  /\ glStateRef' # <<>>
  /\ glStateRef'[1].program.id = glPrograms'
  /\ ~contextLostRef'
  /\ elapsedTimeRef' = 0
  /\ Cardinality(pendingFrames') = 1

\* C28 as stated: while the context is lost nothing is drawn and no frame
\* callback is pending, and webglcontextrestored re-initializes the program,
\* restarts the elapsed time at 0 and resumes exactly one render loop
ContextLossHandledAsClaimed ==
  [][ QuietWhileLost /\ (IsRestore => Reinitialized) ]_vars

\* C28 amended: while the context is lost nothing is drawn and no frame
\* callback is pending; webglcontextrestored calls initializeWebGL again,
\* and when that returns the program is new, the elapsed time restarts at 0
\* and exactly one render loop resumes, while when it throws onError is
\* called, no program is made and no render loop resumes
ContextLossHandled ==
  [][ /\ QuietWhileLost
      /\ IsRestore =>
           \/ Reinitialized
           \/ /\ glErrors' = glErrors + 1
              /\ glPrograms' = glPrograms
              /\ glStateRef' = <<>>
              /\ pendingFrames' = {} ]_vars

\* a frame was drawn, the context was lost and restored, and the loop of
\* the second program has drawn two frames: the elapsed time is that
\* between these two frames
ContextLossHandledWitness ==
  /\ glContext = "ok"
  /\ glPrograms = 2
  /\ glErrors = 0
  /\ glDraws = 3
  /\ elapsedTimeRef = 1
  /\ Cardinality(pendingFrames) = 1

\* ------------------------------------------------------------------------
\* The count of an array uniform in a frame
\* ------------------------------------------------------------------------

\* C29: after a frame, for every array field X of the layout the frame has
\* a vec4 array for, the float packed into the field X_count is the number
\* of elements of X the frame wrote, min(n, L) for a value of n elements
\* and a field of L elements, and is at most L.
CountIsWrittenLength ==
  FramePacked =>
    \A i, j \in FieldIndices :
      LET value == Lookup(allValues, Fields[i].name)
      IN (/\ Fields[i].isArray
          /\ value # Undefined
          /\ isVec4Array(value)
          /\ Fields[j].name = Fields[i].name \o "_count")
           => /\ uniformData[Fields[j].offset \div 4] = Min(Length(value), Fields[i].arrayLength)
              /\ uniformData[Fields[j].offset \div 4] <= Fields[i].arrayLength

\* ------------------------------------------------------------------------
\* Unmounting while initializeWebGPU is pending
\* ------------------------------------------------------------------------

\* a component of each hook, mounted with uniforms that initializeWebGPU
\* accepts or rejects, and unmounted before or after initializeWebGPU settles
InitUnmount ==
  /\ uniformsRef \in StorageUniformMaps
  /\ storageBuffersRef \in {DataOfLength(n) : n \in 0..MaxDataLen}
  /\ InitGPU
  /\ InitSB
  /\ oscBase = 0
  /\ InitGL
  /\ InitAudio
  /\ InitTextures

NextUnmount ==
  \/ Initialize \/ InitializeThrows \/ Render \/ Unmount
  \/ InitializeUnmounted \/ InitializeThrowsUnmounted
  \/ InitializeSB \/ InitializeSBThrows \/ RenderSB \/ UnmountSB
  \/ InitializeSBUnmounted \/ InitializeSBThrowsUnmounted

SpecUnmount == InitUnmount /\ [][NextUnmount]_vars

\* the component is unmounted, initializeWebGPU settled or not
IsUnmounted(p) == p \in {"pending", "unmounted"}

\* C30: once a component is unmounted while initializeWebGPU is pending,
\* no state is published to stateRef, no frame is scheduled or rendered
\* and onError is not called, in both hooks, and when initializeWebGPU
\* has resolved every buffer it created is destroyed.
UnmountWhilePending ==
  [][ /\ IsUnmounted(phase) =>
           /\ IsUnmounted(phase')
           /\ stateRef' = <<>>
           /\ error' = error
           /\ <<frameUniforms, allValues, uniformData>>' = <<frameUniforms, allValues, uniformData>>
      /\ IsUnmounted(sbPhase) =>
           /\ IsUnmounted(sbPhase')
           /\ sbStateRef' = <<>>
           /\ sbError' = sbError
           /\ <<frameTick, lastDraw, uniformDataRef>>' = <<frameTick, lastDraw, uniformDataRef>>
      /\ (sbPhase = "pending" /\ sbPhase' = "unmounted") =>
           \A b \in 1..Len(gpuBuffers') : gpuBuffers'[b].destroyed ]_vars

\* both components were unmounted before initializeWebGPU resolved and it
\* has resolved since: the buffers it created are destroyed, no state is
\* published and no frame was rendered
UnmountWhilePendingWitness ==
  /\ phase = "unmounted" /\ layoutFrom = <<>> /\ stateRef = <<>> /\ error = <<>>
  /\ sbPhase = "unmounted" /\ sbStateRef = <<>> /\ sbError = <<>>
  /\ lastDraw = <<>> /\ frameUniforms = <<>>
  /\ Len(gpuBuffers) >= 2
  /\ \A b \in 1..Len(gpuBuffers) : gpuBuffers[b].destroys = 1

\* ------------------------------------------------------------------------
\* The entries and the binding slots of the storage buffers
\* ------------------------------------------------------------------------

\* the names of the entries of a state, in the order of the entries
EntryNames(state) == [i \in 1..Len(state.storageBuffers) |-> state.storageBuffers[i].name]

\* the slots of the entries of a state
EntrySlots(state) == [i \in 1..Len(state.storageBuffers) |-> state.storageBuffers[i].binding]

\* C31: the storage entries and their slots are fixed at initialization. The
\* entries of the published state are the names of the storage data in
\* sorted order, the entry at position i (from 0) at slot i + 1, so that the
\* slots are pairwise distinct and none is 0; every later step keeps the
\* names and the slots of the entries, in the state and in the bind group,
\* also when it reallocates a buffer or rebuilds the bind group and also
\* when the props hold a name that has no entry; and a frame that finds no
\* data for an entry leaves the entry and its buffer as they were
StorageSlotsFixed ==
  [][/\ (sbStateRef = <<>> /\ sbStateRef' # <<>>) =>
          /\ EntryNames(sbStateRef'[1]) = getStorageBufferNames(storageBuffersRef)
          /\ \A i \in 1..Len(StorageBuffersAfter) : StorageBuffersAfter[i].binding = (i - 1) + 1
     /\ sbStateRef' # <<>> =>
          /\ \A i \in 1..Len(StorageBuffersAfter) :
               /\ StorageBuffersAfter[i].binding # 0
               /\ \A j \in 1..Len(StorageBuffersAfter) :
                    i # j => StorageBuffersAfter[i].binding # StorageBuffersAfter[j].binding
               /\ sbStateRef'[1].uniformBindGroup.entries[i + 1].binding
                    = StorageBuffersAfter[i].binding
          /\ sbStateRef'[1].uniformBindGroup.entries[1].binding = 0
     /\ (sbStateRef # <<>> /\ sbStateRef' # <<>>) =>
          /\ EntryNames(sbStateRef'[1]) = EntryNames(sbState)
          /\ EntrySlots(sbStateRef'[1]) = EntrySlots(sbState)
          /\ \A i \in 1..Len(StorageBuffers) :
               FrameData(i) = Undefined =>
                 /\ StorageBuffersAfter[i] = StorageBuffers[i]
                 /\ gpuBuffers'[StorageBuffers[i].buffer] = gpuBuffers[StorageBuffers[i].buffer]]_vars

\* a session that was initialized with data for one name only: the props
\* now hold data for a second name as well, a frame has read the props,
\* reallocated the buffer of the entry and rebuilt the bind group, and the
\* state still has the one entry at slot 1
StorageSlotsFixedWitness ==
  /\ sbStateRef # <<>>
  /\ sbPhase = "running"
  /\ lastDraw # <<>>
  /\ lastDraw[1].id > 1
  /\ Len(StorageBuffers) = 1
  /\ StorageBuffers[1].binding = 1
  /\ StorageBuffers[1].buffer > 2
  /\ Len(storageBuffersRef) = 2
  /\ StorageBuffers[1].dataLength = Length(FrameData(1))
  /\ Len(lastDraw[1].entries) = 2

\* ------------------------------------------------------------------------
\* Packing by a layout of part_006 while the props change
\* ------------------------------------------------------------------------

\* a session of part_006 that starts with the custom uniforms ripples and
\* scale, both numbers or tuples, and whose props change between frames
InitPackSB ==
  /\ \E values \in PlainValues \X PlainValues :
       uniformsRef = MapOf(<<"ripples", "scale">>, values)
  /\ storageBuffersRef = <<>>
  /\ InitGPU
  /\ InitSB
  /\ oscBase = 0
  /\ InitGL
  /\ InitAudio
  /\ InitTextures

\* the component renders again with new props: uniformsRef.current =
\* options.uniforms, with other values for the same two names
SetUniformsSB ==
  /\ sbPhase \notin {"pending", "unmounted"}
  /\ \E values \in PlainValues \X PlainValues :
       /\ MapOf(<<"ripples", "scale">>, values) # uniformsRef
       /\ uniformsRef' = MapOf(<<"ripples", "scale">>, values)
  /\ UNCHANGED <<varsGL, oscBase, varsAudio, varsTextures, varsGPU, varsSB>>

NextPackSB == InitializeSB \/ SetUniformsSB \/ RenderSB

SpecPackSB == InitPackSB /\ [][NextPackSB]_vars

\* a float buffer of n floats that holds a value no uniform has
Untouched(n) == [i \in 0..(n - 1) |-> -7]

\* the floats of the range of a field: [offset / 4, (offset + size) / 4)
FieldRange(f) == (f.offset \div 4)..((f.offset + f.size) \div 4 - 1)

\* C32: packing the value a frame holds for a field of the layout writes
\* only floats of the range of the field, whatever the shape of the value
PackStaysInField ==
  (sbStateRef # <<>> /\ lastDraw # <<>>) =>
    \A k \in 1..Len(sbState.uniformLayout.fields) :
      LET f == sbState.uniformLayout.fields[k]
          value == Lookup(allValuesRef, f.name)
          n == sbState.uniformLayout.bufferSize \div 4
      IN value # Undefined =>
           \A i \in 0..(n - 1) :
             i \notin FieldRange(f) => packUniformValueSB(f, value, Untouched(n))[i] = -7

\* ------------------------------------------------------------------------
\* The elements of a storage buffer beyond the supplied data
\* ------------------------------------------------------------------------

\* C33: after every frame, every element of the buffer of a storage entry at
\* an index from the number of elements the frame was supplied on is zero
TailIsZero ==
  (sbStateRef # <<>> /\ lastDraw # <<>>) =>
    \A i \in 1..Len(StorageBuffers) :
      \A k \in StorageBuffers[i].dataLength..(StorageBuffers[i].currentLength - 1) :
        ElementOf(gpuBuffers[StorageBuffers[i].buffer], k) = <<0, 0, 0, 0>>

\* ------------------------------------------------------------------------
\* The sizes of the buffer and of the scratch array of a storage entry
\* ------------------------------------------------------------------------

\* the number of floats a frame or the creation uploads for an entry
UploadFloats(entry) == Max(entry.dataLength, 1) * 4

\* C34: at the end of the creation and of every frame, the buffer of every
\* storage entry is alive and has currentLength * 16 bytes and its scratch
\* array has currentLength * 4 floats; the floats packed (4 per supplied
\* element) lie below that length, and the upload of max(dataLength, 1) * 4
\* floats fits into the buffer, which holds the uploaded floats
EntrySizesAgree ==
  sbStateRef # <<>> =>
    \A i \in 1..Len(StorageBuffers) :
      LET entry == StorageBuffers[i]
          buffer == gpuBuffers[entry.buffer]
      IN /\ ~buffer.destroyed
         /\ buffer.size = entry.currentLength * 16
         /\ DOMAIN entry.packingArray = 0..(entry.currentLength * 4 - 1)
         /\ entry.dataLength * 4 <= entry.currentLength * 4
         /\ UploadFloats(entry) * 4 <= buffer.size
         /\ \A k \in 0..(UploadFloats(entry) - 1) : buffer.data[k] = entry.packingArray[k]

\* a frame has replaced the buffer of an entry by a smaller one that holds
\* at least 2 supplied elements
EntrySizesAgreeWitness ==
  /\ HasReallocated
  /\ lastDraw[1].id > 1
  /\ gpuBuffers[StorageBuffers[1].buffer].size < PreviousBuffer.size
  /\ StorageBuffers[1].dataLength >= 2
  /\ gpuBuffers[StorageBuffers[1].buffer].size = StorageBuffers[1].currentLength * 16

\* ------------------------------------------------------------------------
\* The frame callbacks of a session of part_006
\* ------------------------------------------------------------------------

\* a session of part_006 with one storage buffer whose dataset alternates
\* between two lengths and whose canvas may have zero size in a frame
InitFrames ==
  /\ uniformsRef = <<[name |-> "scale", value |-> Num(2)]>>
  /\ storageBuffersRef \in {DataOfLength(n) : n \in FrameLengths}
  /\ InitGPU
  /\ InitSB
  /\ oscBase \in 1..(MaxFrameLen - 1)
  /\ InitGL
  /\ InitAudio
  /\ InitTextures

NextFrames ==
  \/ InitializeSB \/ Oscillate \/ RenderSB \/ RenderSBZeroSize \/ UnmountSB
  \/ InitializeSBUnmounted

SpecFrames == InitFrames /\ [][NextFrames]_vars

\* the number of frame callbacks pending
PendingCount == sbPendingFrames.current + sbPendingFrames.stale

\* the step is one invocation of render: the session runs before and after
\* it and the props are the same
IsRenderInvocation ==
  /\ sbPhase = "running"
  /\ sbPhase' = "running"
  /\ storageBuffersRef' = storageBuffersRef
  /\ sbLastFrame' \in {"drawn", "skipped"}

\* what a frame packs, uploads, reallocates and draws
FrameWork == <<gpuBuffers, sbStateRef, uniformDataRef, allValuesRef, frameTick, lastDraw>>

\* C35: at most one frame callback is pending at any time, exactly one while
\* the session is live and none otherwise; every invocation of render leaves
\* exactly one callback pending, the one it requested, and on the zero size
\* path it packs, uploads, reallocates and draws nothing; the cleanup leaves
\* no callback pending, and after it no step packs, uploads, reallocates or
\* draws
OneFramePending ==
  [][/\ PendingCount' <= 1
     /\ PendingCount' = (IF sbStateRef' # <<>> THEN 1 ELSE 0)
     /\ IsRenderInvocation =>
          /\ PendingCount = 1
          /\ sbPendingFrames' = [current |-> 1, stale |-> 0]
          /\ sbLastFrame' = "skipped" => UNCHANGED FrameWork
     /\ sbPhase \in {"pending", "unmounted"} =>
          /\ UNCHANGED <<uniformDataRef, allValuesRef, frameTick, lastDraw, sbLastFrame>>
          /\ sbStateRef' = <<>>
          /\ \A b \in 1..Len(gpuBuffers) :
               /\ gpuBuffers'[b].destroyed
               /\ ~gpuBuffers'[b].misused]_vars

\* a session was unmounted after a drawn frame and a frame skipped for a
\* zero size that had new data of another length to upload: its buffers are
\* destroyed and no callback is pending
OneFramePendingWitness ==
  /\ sbPhase = "unmounted"
  /\ sbLastFrame = "skipped"
  /\ lastDraw # <<>>
  /\ PendingCount = 0
  /\ Len(gpuBuffers) >= 2
  /\ gpuBuffers[2].destroyed
  /\ Len(storageBuffersRef) = 1
  /\ Length(storageBuffersRef[1].value) * 16 > gpuBuffers[Len(gpuBuffers)].size

\* ------------------------------------------------------------------------
\* The GPU device of a session
\* ------------------------------------------------------------------------

\* C39: a device that initializeWebGPU acquired and that is not destroyed is
\* the device of the published state of the session, in both hooks; so a
\* failed initialization and an unmounted session hold no live device
AcquiredDeviceReleased ==
  /\ device = "live" => (phase = "running" /\ stateRef # <<>>)
  /\ sbDevice = "live" => (sbPhase = "running" /\ sbStateRef # <<>>)

\* ------------------------------------------------------------------------
\* The captures of useAudio
\* ------------------------------------------------------------------------

\* a hook instance whose caller calls start() and stop() in any order while
\* earlier calls of start() are awaiting
InitAudioSession ==
  /\ uniformsRef = <<>>
  /\ storageBuffersRef = <<>>
  /\ InitGPU
  /\ InitSB
  /\ oscBase = 0
  /\ InitGL
  /\ InitAudio
  /\ InitTextures

NextAudio ==
  \/ start \/ resumeResolves \/ getUserMediaResolves \/ getUserMediaRejects \/ stop
  \/ analyze

SpecAudio == InitAudioSession /\ [][NextAudio]_vars

\* the captures that are active: a context that is not closed with a stream
\* whose tracks are not stopped
ActiveCaptures ==
  {i \in 1..Len(starts) : starts[i].context # "closed" /\ starts[i].stream = "live"}

\* C36: at most one capture is active at any time, and it is the capture of
\* audioStateRef
AtMostOneCapture ==
  /\ Cardinality(ActiveCaptures) <= 1
  /\ \A i \in ActiveCaptures : audioStateRef = <<i>>

\* C37: from the return of stop() until the next call of start(), the hook
\* reports "disconnected", is not running, has zero levels and holds no
\* capture and no open context
StoppedStaysStopped ==
  lastCall = "stop" =>
    /\ connectionState = "disconnected"
    /\ ~isRunning
    /\ levels = "zero"
    /\ audioStateRef = <<>>
    /\ ActiveCaptures = {}

\* ------------------------------------------------------------------------
\* The units of texture uniforms whose sources are replaced
\* ------------------------------------------------------------------------

\* a WebGL session whose texture uniforms, no more than texture units, get
\* other source objects between frames
InitTextureSession ==
  /\ uniformsRef = <<>>
  /\ storageBuffersRef = <<>>
  /\ InitGPU
  /\ InitSB
  /\ oscBase = 0
  /\ InitGL
  /\ InitAudio
  /\ InitTextures

NextTextures == SetTextureSource \/ RenderTextures \/ UnmountTextures

SpecTextures == InitTextureSession /\ [][NextTextures]_vars

\* the texture uniform of a name is bound: the manager holds an entry of the
\* name for the source, with a live texture that is bound to the unit of the
\* entry, a unit below maxUnits
IsBound(name, source) ==
  LET found == cacheGet(textureManager, name)
  IN /\ found # <<>>
     /\ found[1].source = source
     /\ found[1].unit < textureManager.maxUnits
     /\ textures[found[1].texture] = "live"
     /\ textureUnits[found[1].unit] = found[1].texture

\* C38: after a frame, every texture uniform of the props of the frame is
\* bound, however often its source was replaced before, and the entries of
\* distinct names have distinct units
TexturesRebound ==
  /\ (texturePhase = "mounted" /\ textureFrame # <<>>) =>
       \A i \in 1..Len(textureFrame[1]) :
         IsBound(textureFrame[1][i].name, textureFrame[1][i].value)
  /\ \A i, j \in 1..Len(textureManager.cache) :
       i # j => textureManager.cache[i].unit # textureManager.cache[j].unit

====
